---- MODULE Spec2Model ----
(***************************************************************************)
(* LP-SIFT / LP-ORB local-peak detection, the 64-bin descriptor and the    *)
(* benchmark runner of css587project, as state machines.                   *)
(*                                                                         *)
(*   SpecDetect   LPSIFT::detect and LPORB::detect on one image            *)
(*   SpecCompute  LPSIFT::compute on one image and a keypoint list         *)
(*   SpecRun      BenchmarkRunner::runSingleBenchmark, stage by stage      *)
(*   SpecSweep    BenchmarkRunner::runOnDirectory / runAllDetectors        *)
(***************************************************************************)
EXTENDS Integers, Sequences, FiniteSets, Bags, TLC

(***************************************************************************)
(* Bounds of the model.                                                    *)
(***************************************************************************)
\* largest image side, and largest window size tried
MaxDim == 3
\* longest window-size list given to a detector
MaxWindows == 2

\* image-set directories in the benchmark directory
MaxSets == 3

\* runs of one benchmark call in which a library call fails or comes back empty
MaxFailedRuns == 2

\* runs of one sweep over the directory in which a library call fails
MaxSweepFaults == 1

(***************************************************************************)
(* Program constants.                                                      *)
(***************************************************************************)
\* 1e-6f is 8796093 * 2^-43 as an IEEE-754 binary32 (0x358637BD)
DEFAULT_LINEAR_NOISE_ALPHA == 8796093
SPATIAL_BINS == 4
ORIENT_BINS == 4
DESCRIPTOR_SIZE == SPATIAL_BINS * SPATIAL_BINS * ORIENT_BINS

VARIABLES
    image,              \* the caller's image: [rows, cols, pix], pix in raster order
    windowSizes_,       \* LPSIFT::windowSizes_ / LPORB::windowSizes_
    linearNoiseAlpha_,  \* the detector's alpha, in units of 2^-43
    keypoints,          \* the caller's std::vector<KeyPoint>
    descriptors,        \* the caller's descriptor matrix, one row per element
    grayWithRamp,       \* detect's CV_32F working copy after addLinearRamp
    tiles,              \* the ROIs detect handed to minMaxLoc, in order
    lpPc,               \* "idle", "detected" (by which detector), "computed"
    run,                \* runSingleBenchmark: its metrics, locals and position
    baselineH,          \* BenchmarkRunner::baselineH
    dirExists,          \* imageDir exists and is a directory
    imageSets,          \* the image-set directories, sorted, and what imread finds
    filteredImageSets,  \* runOnDirectory's set filter (empty: every set)
    filteredDetectors,  \* runOnDirectory's detector-filter map: entries [key, filter]
    setIdx,             \* runOnDirectory's position in imageSets
    detectors_,         \* BenchmarkRunner::detectors_, the registered names
    outputPath,         \* the outputPath argument ("" : write no image)
    detIdx,             \* runAllDetectors' position in detectors_
    results,            \* runAllDetectors' results
    allResults,         \* runOnDirectory's allResults
    failedRuns,         \* how many runs of the sweep have met a fault
    bmPc,               \* "idle", "running", "sweeping", "returned", "aborted"
    process,            \* main: argv, its position in it, how the process ended
    report,             \* what CSVExporter and printSummaryTable have emitted
    limit,              \* limitKeypoints: its arguments and kpts afterwards
    blend               \* warpAndBlend: its arguments, locals and how it ended

lpVars == <<image, windowSizes_, linearNoiseAlpha_, keypoints, descriptors,
            grayWithRamp, tiles, lpPc>>

runVars == <<run, baselineH>>

sweepVars == <<dirExists, imageSets, filteredImageSets, filteredDetectors, setIdx,
               detectors_, outputPath, detIdx, results, allResults, failedRuns>>

mainVars == <<process, report, limit, blend>>

vars == <<lpVars, runVars, sweepVars, bmPc, mainVars>>

\* main has not been entered and nothing has been reported
NoProcess == [pc |-> "none"]

NoReport == [pc |-> "none"]

\* limitKeypoints and warpAndBlend have not been called
NoLimit == [pc |-> "none"]

NoBlend == [pc |-> "none"]

MainIdle ==
    /\ process = NoProcess
    /\ report = NoReport
    /\ limit = NoLimit
    /\ blend = NoBlend

\* no benchmark call is in progress
NoRun == [pc |-> "none"]

NoH == [kind |-> "none", dataset |-> "", algorithm |-> ""]

BenchmarkIdle ==
    /\ run = NoRun
    /\ baselineH = NoH
    /\ dirExists = TRUE
    /\ imageSets = <<>>
    /\ filteredImageSets = {}
    /\ filteredDetectors = {}
    /\ setIdx = 0
    /\ detectors_ = <<>>
    /\ outputPath = ""
    /\ detIdx = 0
    /\ results = <<>>
    /\ allResults = <<>>
    /\ failedRuns = 0
    /\ bmPc = "idle"

(***************************************************************************)
(* Small arithmetic helpers.                                               *)
(***************************************************************************)
Min(a, b) == IF a <= b THEN a ELSE b
Max(a, b) == IF a >= b THEN a ELSE b

RECURSIVE Pow2(_)
Pow2(n) == IF n <= 0 THEN 1 ELSE 2 * Pow2(n - 1)

RECURSIVE Log2Floor(_)
Log2Floor(n) == IF n < 2 THEN 0 ELSE 1 + Log2Floor(n \div 2)

RECURSIVE SumSeq(_)
SumSeq(s) == IF s = <<>> THEN 0 ELSE Head(s) + SumSeq(Tail(s))

RECURSIVE Concat(_)
Concat(ss) == IF ss = <<>> THEN <<>> ELSE Head(ss) \o Concat(Tail(ss))

(***************************************************************************)
(* binary32 arithmetic.  A CV_32F value of the working copy is v + off *   *)
(* 2^-43 with v the 8-bit intensity and off >= 0 the (rounded) ramp; the   *)
(* unit 2^-43 is the ulp of 1e-6f.  Round-to-nearest, ties to even.        *)
(***************************************************************************)
RoundTiesEven(n, u) ==
    LET q == n \div u
        r == n % u
    IN  IF 2 * r < u THEN q * u
        ELSE IF 2 * r > u THEN (q + 1) * u
        ELSE IF q % 2 = 0 THEN q * u ELSE (q + 1) * u

\* the binary32 nearest to n * 2^-43 (24 significant bits)
F32FromUnits(n) ==
    IF n < Pow2(24) THEN n ELSE RoundTiesEven(n, Pow2(Log2Floor(n) - 23))

\* the binary32 nearest to v + n * 2^-43, v an integer: the ulp of v in
\* [2^e, 2^(e+1)) is 2^(e-23), that is 2^(e+20) units
F32Add(v, n) ==
    IF v = 0 THEN [v |-> 0, off |-> F32FromUnits(n)]
    ELSE [v |-> v, off |-> RoundTiesEven(n, Pow2(Log2Floor(v) + 20))]

\* static_cast<float>(maxVal - minVal): the double difference is exact
F32Sub(a, b) ==
    LET dv == a.v - b.v
        doff == a.off - b.off
    IN  IF dv = 0 THEN [v |-> 0, off |-> F32FromUnits(doff)]
        ELSE IF doff >= 0
             THEN [v |-> dv, off |-> RoundTiesEven(doff, Pow2(Log2Floor(dv) + 20))]
        ELSE IF dv = 1 THEN [v |-> dv, off |-> RoundTiesEven(doff, Pow2(19))]
        ELSE [v |-> dv, off |-> RoundTiesEven(doff, Pow2(Log2Floor(dv - 1) + 20))]

FLess(a, b) == a.v < b.v \/ (a.v = b.v /\ a.off < b.off)

(***************************************************************************)
(* Images.                                                                 *)
(***************************************************************************)
PixelValues == {0, 200}

EmptyImage == [rows |-> 0, cols |-> 0, pix |-> <<>>]

FlatImage(r, c, b) ==
    [rows |-> r, cols |-> c, pix |-> [i \in 0 .. r * c - 1 |-> b]]

SpotImage(r, c, b, s, p) ==
    [rows |-> r, cols |-> c,
     pix |-> [i \in 0 .. r * c - 1 |-> IF i = p THEN s ELSE b]]

Sides == 1 .. MaxDim

Images ==
    {EmptyImage}
    \cup {FlatImage(r, c, b) : r \in Sides, c \in Sides, b \in PixelValues}
    \cup UNION {{SpotImage(r, c, b, s, p) : p \in 0 .. r * c - 1} :
                  r \in Sides, c \in Sides, b \in PixelValues, s \in PixelValues}

IsEmpty(img) == img.rows * img.cols = 0

\* gray.convertTo(..., CV_32F): every 8-bit value is a binary32
ToFloat(img) ==
    [rows |-> img.rows, cols |-> img.cols,
     pix |-> [i \in DOMAIN img.pix |-> [v |-> img.pix[i], off |-> 0]]]

(***************************************************************************)
(* LPSIFT::addLinearRamp / LPORB::addLinearRamp: std::iota fills the ramp  *)
(* with 0, 1, 2, ... in raster order, ramp *= alpha rounds each product to *)
(* binary32, image += ramp rounds each sum to binary32.                    *)
(***************************************************************************)
addLinearRamp(fimg, alpha) ==
    IF alpha <= 0 \/ IsEmpty(fimg) THEN fimg
    ELSE [fimg EXCEPT !.pix =
            [i \in DOMAIN fimg.pix |->
                F32Add(fimg.pix[i].v, F32FromUnits(i * alpha))]]

(***************************************************************************)
(* LPSIFT::isUniqueInNeighborhood                                          *)
(***************************************************************************)
Neighborhood(img, x, y) ==
    LET beginY == Max(0, y - 1)
        endY == Min(img.rows - 1, y + 1)
        beginX == Max(0, x - 1)
        endX == Min(img.cols - 1, x + 1)
    IN  {ny * img.cols + nx : nx \in beginX .. endX, ny \in beginY .. endY}

\* a uniqueness test that tolerates one other pixel of the same value
isUniqueInNeighborhood_AtMostTwo(fimg, x, y) ==
    LET kptValue == fimg.pix[y * fimg.cols + x]
        count == Cardinality({i \in Neighborhood(fimg, x, y) : fimg.pix[i] = kptValue})
    IN  count <= 2

isUniqueInNeighborhood(fimg, x, y) ==
    LET kptValue == fimg.pix[y * fimg.cols + x]
        count == Cardinality({i \in Neighborhood(fimg, x, y) : fimg.pix[i] = kptValue})
    IN  count = 1

(***************************************************************************)
(* LPSIFT::addKeypointCandidate / LPORB::addKeypointCandidate: the         *)
(* keypoints it appends (none when the bounds check fails).                *)
(***************************************************************************)
\* a candidate whose size and class_id are taken from the position of the
\* window size in the list
addKeypointCandidate_SizeFromIndex(x, y, windowSize, octaveIndex, response, cols, rows) ==
    IF x < 0 \/ y < 0 \/ x >= cols \/ y >= rows \/ windowSize <= 0 THEN <<>>
    ELSE << [x |-> x, y |-> y, size |-> octaveIndex + 1, response |-> response,
             angle |-> -1, octave |-> octaveIndex, class_id |-> octaveIndex + 1] >>

addKeypointCandidate(x, y, windowSize, octaveIndex, response, cols, rows) ==
    IF x < 0 \/ y < 0 \/ x >= cols \/ y >= rows \/ windowSize <= 0 THEN <<>>
    ELSE << [x |-> x, y |-> y, size |-> windowSize, response |-> response,
             angle |-> -1, octave |-> octaveIndex, class_id |-> windowSize] >>

(***************************************************************************)
(* cv::minMaxLoc on a tile: the first minimum and the first maximum in     *)
(* raster order.                                                           *)
(***************************************************************************)
TilePixels(t, cols) ==
    {yy * cols + xx : xx \in t.x .. t.x + t.w - 1, yy \in t.y .. t.y + t.h - 1}

minLocOf(fimg, t) ==
    LET T == TilePixels(t, fimg.cols)
    IN  CHOOSE p \in T : \A q \in T :
            /\ ~FLess(fimg.pix[q], fimg.pix[p])
            /\ (fimg.pix[q] = fimg.pix[p] => p <= q)

maxLocOf(fimg, t) ==
    LET T == TilePixels(t, fimg.cols)
    IN  CHOOSE p \in T : \A q \in T :
            /\ ~FLess(fimg.pix[p], fimg.pix[q])
            /\ (fimg.pix[q] = fimg.pix[p] => p <= q)

(***************************************************************************)
(* The tile loops.  LPSIFT::detect: for (y = 0; y < rows; y += L) with     *)
(* h = min(L, rows - y), and the same in x.  LPORB::detect: for (y = 0;    *)
(* y + L <= rows; y += L) with an L x L ROI.  Tiles in loop order.         *)
(***************************************************************************)
LPSIFT_Tiles(idx, L, rows, cols) ==
    LET nty == (rows + L - 1) \div L
        ntx == (cols + L - 1) \div L
    IN  [k \in 1 .. nty * ntx |->
            LET y == ((k - 1) \div ntx) * L
                x == ((k - 1) % ntx) * L
            IN  [idx |-> idx, L |-> L, x |-> x, y |-> y,
                 w |-> Min(L, cols - x), h |-> Min(L, rows - y)]]

LPORB_Tiles(idx, L, rows, cols) ==
    LET nty == rows \div L
        ntx == cols \div L
    IN  [k \in 1 .. nty * ntx |->
            LET y == ((k - 1) \div ntx) * L
                x == ((k - 1) % ntx) * L
            IN  [idx |-> idx, L |-> L, x |-> x, y |-> y, w |-> L, h |-> L]]

\* LPSIFT_TileKeypoints with the uniqueness test run on the ramped working
\* copy instead of the un-ramped original
LPSIFT_TileKeypoints_RampedFilter(originalGray, ramped, t) ==
    LET cols == ramped.cols
        rows == ramped.rows
        maxLoc == maxLocOf(ramped, t)
        minLoc == minLocOf(ramped, t)
        response == F32Sub(ramped.pix[maxLoc], ramped.pix[minLoc])
    IN  (IF isUniqueInNeighborhood(ramped, maxLoc % cols, maxLoc \div cols)
         THEN addKeypointCandidate(maxLoc % cols, maxLoc \div cols, t.L, t.idx,
                                   response, cols, rows)
         ELSE <<>>)
        \o
        (IF isUniqueInNeighborhood(ramped, minLoc % cols, minLoc \div cols)
         THEN addKeypointCandidate(minLoc % cols, minLoc \div cols, t.L, t.idx,
                                   response, cols, rows)
         ELSE <<>>)

\* the body of the tile loop of LPSIFT::detect: the keypoints one tile adds
LPSIFT_TileKeypoints(originalGray, ramped, t) ==
    LET cols == ramped.cols
        rows == ramped.rows
        maxLoc == maxLocOf(ramped, t)
        minLoc == minLocOf(ramped, t)
        gxMax == maxLoc % cols
        gyMax == maxLoc \div cols
        gxMin == minLoc % cols
        gyMin == minLoc \div cols
        response == F32Sub(ramped.pix[maxLoc], ramped.pix[minLoc])
    IN  (IF isUniqueInNeighborhood(originalGray, gxMax, gyMax)
         THEN addKeypointCandidate(gxMax, gyMax, t.L, t.idx, response, cols, rows)
         ELSE <<>>)
        \o
        (IF isUniqueInNeighborhood(originalGray, gxMin, gyMin)
         THEN addKeypointCandidate(gxMin, gyMin, t.L, t.idx, response, cols, rows)
         ELSE <<>>)

\* the body of the tile loop of LPORB::detect (no uniqueness filter)
LPORB_TileKeypoints(ramped, t) ==
    LET cols == ramped.cols
        rows == ramped.rows
        maxLoc == maxLocOf(ramped, t)
        minLoc == minLocOf(ramped, t)
        response == F32Sub(ramped.pix[maxLoc], ramped.pix[minLoc])
    IN  addKeypointCandidate(maxLoc % cols, maxLoc \div cols, t.L, t.idx,
                             response, cols, rows)
        \o
        addKeypointCandidate(minLoc % cols, minLoc \div cols, t.L, t.idx,
                             response, cols, rows)

(***************************************************************************)
(* LPSIFT::detect and LPORB::detect: what the call leaves in the caller's  *)
(* keypoint vector, with the working copy and the ROIs it searched.        *)
(***************************************************************************)
LPSIFT_detect(img, windowSizes, alpha) ==
    IF IsEmpty(img)
    THEN [keypoints |-> <<>>, tiles |-> <<>>, ramped |-> ToFloat(img)]
    ELSE
        LET originalGray == ToFloat(img)
            ramped == addLinearRamp(ToFloat(img), alpha)
            ts == Concat([i \in 1 .. Len(windowSizes) |->
                            LPSIFT_Tiles(i - 1, windowSizes[i], img.rows, img.cols)])
        IN  [keypoints |-> Concat([k \in 1 .. Len(ts) |->
                                     LPSIFT_TileKeypoints(originalGray, ramped, ts[k])]),
             tiles |-> ts,
             ramped |-> ramped]

\* the first entry of the list that is not positive, 0 if there is none
FirstNonPositive(windowSizes) ==
    IF \E i \in DOMAIN windowSizes : windowSizes[i] <= 0
    THEN CHOOSE i \in DOMAIN windowSizes :
            /\ windowSizes[i] <= 0
            /\ \A j \in 1 .. i - 1 : windowSizes[j] > 0
    ELSE 0

\* LPSIFT::detect for any window-size list, with the ways the call can end.
\* At an entry L < 0 the ROI has a negative width and grayWithRamp(roi) throws.
\* At L = 0 the ROI is empty, minMaxLoc gives (-1, -1), the uniqueness test
\* reads originalGray outside its buffer, addKeypointCandidate rejects the
\* candidate, and x += 0 never leaves the loop: the call hangs unless the
\* out-of-bounds read faults.
LPSIFT_detectAnyWindow(img, windowSizes, alpha) ==
    LET bad == FirstNonPositive(windowSizes)
    IN  IF IsEmpty(img) \/ bad = 0
        THEN [done |-> LPSIFT_detect(img, windowSizes, alpha),
              ends |-> {"detected_lpsift"}]
        ELSE [done |-> LPSIFT_detect(img, SubSeq(windowSizes, 1, bad - 1), alpha),
              ends |-> IF windowSizes[bad] < 0 THEN {"threw"} ELSE {"hung", "faulted"}]

LPORB_detect(img, windowSizes, alpha) ==
    IF IsEmpty(img)
    THEN [keypoints |-> <<>>, tiles |-> <<>>, ramped |-> ToFloat(img)]
    ELSE
        LET ramped == addLinearRamp(ToFloat(img), alpha)
            ts == Concat([i \in 1 .. Len(windowSizes) |->
                            LPORB_Tiles(i - 1, windowSizes[i], img.rows, img.cols)])
        IN  [keypoints |-> Concat([k \in 1 .. Len(ts) |->
                                     LPORB_TileKeypoints(ramped, ts[k])]),
             tiles |-> ts,
             ramped |-> ramped]

(***************************************************************************)
(* LPSIFT::computeDescriptor.  Pixel coordinates and window sizes are      *)
(* integers, so kpt_h + i + ii * radiusPerBin is a multiple of 1/4 and is   *)
(* kept in quarter units; the histogram entries are integers.              *)
(***************************************************************************)
ISqrt(n) == CHOOSE r \in 0 .. n : r * r <= n /\ n < (r + 1) * (r + 1)

\* static_cast<int>(std::round(3.0f * std::sqrt(scale) * d)), d = 4
RoundedRadius(scale) ==
    CHOOSE r \in 0 .. 12 * scale + 1 :
        /\ (r = 0 \/ (2 * r - 1) * (2 * r - 1) <= 576 * scale)
        /\ 576 * scale < (2 * r + 1) * (2 * r + 1)

\* the block of the keypoint and the sampling radius
DescriptorGeometry(gray, kpt) ==
    LET d == SPATIAL_BINS
        windowSize == kpt.class_id
        scale == Log2Floor(windowSize)
        block_j == kpt.x \div windowSize
        block_i == kpt.y \div windowSize
        blockStartX == block_j * windowSize
        blockStartY == block_i * windowSize
        blockW == Min(blockStartX + windowSize, gray.cols) - blockStartX
        blockH == Min(blockStartY + windowSize, gray.rows) - blockStartY
        radius == Max(d, Min(RoundedRadius(scale), ISqrt(blockH * blockH + blockW * blockW)))
    IN  [kpt_w |-> kpt.x - blockStartX, kpt_h |-> kpt.y - blockStartY,
         blockStartX |-> blockStartX, blockStartY |-> blockStartY,
         blockW |-> blockW, blockH |-> blockH, radius |-> radius]

\* the bounds check of a sample: a 1-pixel margin from the image borders
Contributes(gray, globalY, globalX) ==
    /\ globalY > 0 /\ globalY < gray.rows - 1
    /\ globalX > 0 /\ globalX < gray.cols - 1

\* a central difference that reads two pixels away from the sample
GradientReads_TwoApart(globalY, globalX) ==
    {<<globalY, globalX + 2>>, <<globalY, globalX - 2>>,
     <<globalY - 2, globalX>>, <<globalY + 2, globalX>>}

\* the pixels (row, column) the gradient at a sample reads
GradientReads(globalY, globalX) ==
    {<<globalY, globalX + 1>>, <<globalY, globalX - 1>>,
     <<globalY - 1, globalX>>, <<globalY + 1, globalX>>}

\* dx, dy at one sample; a sample outside the 1-pixel margin adds nothing
SampleGradient(gray, globalY, globalX) ==
    IF Contributes(gray, globalY, globalX)
    THEN [dx |-> gray.pix[globalY * gray.cols + globalX + 1]
                 - gray.pix[globalY * gray.cols + globalX - 1],
          dy |-> gray.pix[(globalY - 1) * gray.cols + globalX]
                 - gray.pix[(globalY + 1) * gray.cols + globalX]]
    ELSE [dx |-> 0, dy |-> 0]

\* the samples of spatial bin (ii, jj) in loop order, in image coordinates:
\* i and j run from -radiusPerBin in steps of 1 while <= radiusPerBin
BinSamples(g, ii, jj) ==
    LET n == g.radius \div 2 + 1
    IN  [s \in 1 .. n * n |->
           LET i4 == 4 * ((s - 1) \div n) - g.radius
               j4 == 4 * ((s - 1) % n) - g.radius
               img_h == (4 * g.kpt_h + i4 + ii * g.radius) \div 4
               img_w == (4 * g.kpt_w + j4 + jj * g.radius) \div 4
           IN  [globalY |-> g.blockStartY + img_h, globalX |-> g.blockStartX + img_w]]

\* a histogram that keeps the two dx sums first and the two dy sums last
BinHistogram_DxThenDy(gray, g, ii, jj) ==
    LET at == BinSamples(g, ii, jj)
        grad == [s \in DOMAIN at |-> SampleGradient(gray, at[s].globalY, at[s].globalX)]
    IN  << SumSeq([s \in DOMAIN grad |-> Max(grad[s].dx, 0)]),
           SumSeq([s \in DOMAIN grad |-> Min(grad[s].dx, 0)]),
           SumSeq([s \in DOMAIN grad |-> Max(grad[s].dy, 0)]),
           SumSeq([s \in DOMAIN grad |-> Min(grad[s].dy, 0)]) >>

\* hist[0..3] of spatial bin (ii, jj): +dx, +dy, -dx, -dy
BinHistogram(gray, g, ii, jj) ==
    LET at == BinSamples(g, ii, jj)
        grad == [s \in DOMAIN at |-> SampleGradient(gray, at[s].globalY, at[s].globalX)]
    IN  << SumSeq([s \in DOMAIN grad |-> Max(grad[s].dx, 0)]),
           SumSeq([s \in DOMAIN grad |-> Max(grad[s].dy, 0)]),
           SumSeq([s \in DOMAIN grad |-> Min(grad[s].dx, 0)]),
           SumSeq([s \in DOMAIN grad |-> Min(grad[s].dy, 0)]) >>

\* a histogram without the early return for a block of 2 pixels or less
RawHistogram_NoEarlyReturn(gray, kpt) ==
    LET d == SPATIAL_BINS
        g == DescriptorGeometry(gray, kpt)
    IN  Concat([b \in 1 .. d * d |-> BinHistogram(gray, g, (b - 1) \div d, (b - 1) % d)])

\* the 64 histogram entries before normalisation
RawHistogram(gray, kpt) ==
    LET d == SPATIAL_BINS
        g == DescriptorGeometry(gray, kpt)
    IN  IF g.blockW <= 2 \/ g.blockH <= 2 THEN [k \in 1 .. DESCRIPTOR_SIZE |-> 0]
        ELSE Concat([b \in 1 .. d * d |-> BinHistogram(gray, g, (b - 1) \div d, (b - 1) % d)])

SumSquares(h) == SumSeq([k \in DOMAIN h |-> h[k] * h[k]])

Sign(a) == IF a > 0 THEN 1 ELSE IF a < 0 THEN -1 ELSE 0

\* raw holds the entries as they stand before the normalisation loops
ZeroDescriptor ==
    [vec |-> [k \in 1 .. DESCRIPTOR_SIZE |-> [sgn |-> 0, num |-> 0]], den |-> 1,
     divided |-> FALSE, raw |-> [k \in 1 .. DESCRIPTOR_SIZE |-> 0]]

\* the variant of NormalizeDescriptor that divides by the norm taken before
\* clipping
NormalizeDescriptor_NoRenormalize(raw) ==
    LET normSq == SumSquares(raw)
    IN  IF normSq > 0
        THEN [vec |-> [k \in DOMAIN raw |->
                         [sgn |-> Sign(raw[k]), num |-> Min(25 * raw[k] * raw[k], normSq)]],
              den |-> 25 * normSq, divided |-> TRUE, raw |-> raw]
        ELSE ZeroDescriptor

\* Normalise, clip to +-0.2 * norm, re-normalise.  The entries are integers, so
\* norm > 1e-7 exactly when the sum of squares is >= 1.  Entry k of the result
\* is sgn * sqrt(num / den): 25 * (clipped entry)^2 is min(25 h^2, norm^2), and
\* den is 25 * (norm after clipping)^2.
NormalizeDescriptor(raw) ==
    LET normSq == SumSquares(raw)
        clipped == [k \in DOMAIN raw |->
                      [sgn |-> Sign(raw[k]), num |-> Min(25 * raw[k] * raw[k], normSq)]]
        norm2Sq == SumSeq([k \in DOMAIN raw |-> clipped[k].num])
    IN  IF normSq > 0
        THEN IF norm2Sq > 0
             THEN [vec |-> clipped, den |-> norm2Sq, divided |-> TRUE, raw |-> raw]
             ELSE [vec |-> clipped, den |-> 25, divided |-> FALSE, raw |-> raw]
        ELSE ZeroDescriptor

computeDescriptor(gray, kpt) == NormalizeDescriptor(RawHistogram(gray, kpt))

(***************************************************************************)
(* LPSIFT::compute                                                         *)
(***************************************************************************)
ReleasedMat == [rows |-> 0, cols |-> 0, data |-> <<>>]

\* the variant of LPSIFT_compute that writes no row for a keypoint whose window
\* is too small to sample
LPSIFT_compute_SkipSmallWindows(img, kps) ==
    IF kps = <<>> \/ IsEmpty(img) THEN ReleasedMat
    ELSE LET kept == SelectSeq(kps, LAMBDA k : k.class_id > 2)
         IN  [rows |-> Len(kept), cols |-> DESCRIPTOR_SIZE,
              data |-> [i \in 1 .. Len(kept) |-> computeDescriptor(img, kept[i])]]

LPSIFT_compute(img, kps) ==
    IF kps = <<>> THEN ReleasedMat
    ELSE IF IsEmpty(img) THEN ReleasedMat
    ELSE [rows |-> Len(kps), cols |-> DESCRIPTOR_SIZE,
          data |-> [i \in 1 .. Len(kps) |-> computeDescriptor(img, kps[i])]]

\* every sample position LPSIFT::computeDescriptor visits for a keypoint
LPSIFT_Samples(gray, kpt) ==
    LET g == DescriptorGeometry(gray, kpt)
    IN  IF g.blockW <= 2 \/ g.blockH <= 2 THEN {}
        ELSE UNION {{BinSamples(g, ii, jj)[s] : s \in DOMAIN BinSamples(g, ii, jj)} :
                      ii \in 0 .. SPATIAL_BINS - 1, jj \in 0 .. SPATIAL_BINS - 1}

\* the pixels a descriptor computation reads, given the samples it visits
PixelsRead(gray, samples) ==
    UNION {GradientReads(s.globalY, s.globalX) :
             s \in {t \in samples : Contributes(gray, t.globalY, t.globalX)}}

(***************************************************************************)
(* SIFTWithLPDescriptor: the same histogram around a SIFT keypoint, with   *)
(* radius round(2 * max(kpt.size, 4)) and bins centred on the keypoint.    *)
(* Keypoint positions and sizes are whole numbers here.                    *)
(***************************************************************************)
SIFTLP_Radius(kpt) == Max(SPATIAL_BINS, 2 * Max(kpt.size, 4))

SIFTLP_BinSamples(kpt, ii, jj) ==
    LET radius == SIFTLP_Radius(kpt)
        n == radius \div 2 + 1
        d == SPATIAL_BINS
    IN  [s \in 1 .. n * n |->
           LET i4 == 4 * ((s - 1) \div n) - radius
               j4 == 4 * ((s - 1) % n) - radius
           IN  [globalY |-> (4 * kpt.y + i4 + (ii - d \div 2) * radius) \div 4,
                globalX |-> (4 * kpt.x + j4 + (jj - d \div 2) * radius) \div 4]]

SIFTLP_BinHistogram(gray, kpt, ii, jj) ==
    LET at == SIFTLP_BinSamples(kpt, ii, jj)
        grad == [s \in DOMAIN at |-> SampleGradient(gray, at[s].globalY, at[s].globalX)]
    IN  << SumSeq([s \in DOMAIN grad |-> Max(grad[s].dx, 0)]),
           SumSeq([s \in DOMAIN grad |-> Max(grad[s].dy, 0)]),
           SumSeq([s \in DOMAIN grad |-> Min(grad[s].dx, 0)]),
           SumSeq([s \in DOMAIN grad |-> Min(grad[s].dy, 0)]) >>

SIFTLP_computeDescriptor(gray, kpt) ==
    LET d == SPATIAL_BINS
    IN  NormalizeDescriptor(
            Concat([b \in 1 .. d * d |->
                      SIFTLP_BinHistogram(gray, kpt, (b - 1) \div d, (b - 1) % d)]))

SIFTLP_Samples(kpt) ==
    UNION {{SIFTLP_BinSamples(kpt, ii, jj)[s] : s \in DOMAIN SIFTLP_BinSamples(kpt, ii, jj)} :
             ii \in 0 .. SPATIAL_BINS - 1, jj \in 0 .. SPATIAL_BINS - 1}

SIFTLP_compute(img, kps) ==
    IF kps = <<>> THEN ReleasedMat
    ELSE IF IsEmpty(img) THEN ReleasedMat
    ELSE [rows |-> Len(kps), cols |-> DESCRIPTOR_SIZE,
          data |-> [i \in 1 .. Len(kps) |-> SIFTLP_computeDescriptor(img, kps[i])]]



(***************************************************************************)
(* BenchmarkRunner::runSingleBenchmark.  The detectors, the matcher,       *)
(* findHomography, warpAndBlend and imwrite are library calls: each either *)
(* throws a std::exception or returns, and what it returns (how many       *)
(* keypoints, descriptors or matches, an empty or a non-empty H) is the    *)
(* outcome `out` = [throw, val] the environment chooses.                   *)
(***************************************************************************)
MAX_KEYPOINTS_BF == 50000
MIN_MATCHES == 4

EmptyH == [kind |-> "empty", dataset |-> "", algorithm |-> ""]

HomographyOf(dataset, algorithm) ==
    [kind |-> "H", dataset |-> dataset, algorithm |-> algorithm]

\* the statements of the try block that call into a library, in order
Stages ==
    << "detect_ref", "detect_reg", "describe_ref", "describe_reg", "match",
       "homography", "warp", "save" >>

\* a try block that ends before the stitched image is written
TryStages_SaveOutside ==
    {"detect_ref", "detect_reg", "describe_ref", "describe_reg", "match",
     "homography", "warp"}

StageNames == {Stages[i] : i \in DOMAIN Stages}

\* the stages inside try { ... } catch (const std::exception&)
TryStages == StageNames

\* a size categorisation whose thresholds belong to the smaller category
getImageSizeCategory_Inclusive(width, height) ==
    LET pixels == width * height
    IN  IF pixels <= 1000000 THEN "SMALL"
        ELSE IF pixels <= 3000000 THEN "MEDIUM"
        ELSE "LARGE"

\* getImageSizeCategory; `long pixels` holds the product exactly
getImageSizeCategory(width, height) ==
    LET pixels == width * height
    IN  IF pixels < 1000000 THEN "SMALL"
        ELSE IF pixels < 3000000 THEN "MEDIUM"
        ELSE "LARGE"

\* metrics and locals at entry, up to totalTimer.start(), for given images
RunEntry(datasetName, referenceImg, registeredImg, name, lpsiftWindowSizes, saveOutput, thisBaselineH) ==
    [pc |-> "detect_ref",
     datasetName |-> datasetName,
     algorithmName |-> name,
     referenceWidth |-> referenceImg.cols,
     referenceHeight |-> referenceImg.rows,
     registeredWidth |-> registeredImg.cols,
     registeredHeight |-> registeredImg.rows,
     sizeCategory |-> getImageSizeCategory(referenceImg.cols, referenceImg.rows),
     windowSizes |-> IF name = "LP-SIFT"
                     THEN [text |-> "joinInts", sizes |-> lpsiftWindowSizes]
                     ELSE [text |-> "x", sizes |-> <<>>],
     saveOutput |-> saveOutput,
     kpts1 |-> 0, kpts2 |-> 0, desc1 |-> 0, desc2 |-> 0, matches |-> 0, H |-> NoH,
     numKeypointsReference |-> 0, numKeypointsRegistered |-> 0,
     numMatches |-> 0,
     stitchingSuccess |-> FALSE, failureReason |-> "",
     times |-> {},
     homography |-> NoH, baselineH |-> NoH,
     thisBaselineH |-> thisBaselineH,
     propagated |-> FALSE,
     log |-> <<>>]

\* the size of the images of the modelled benchmark runs
BenchmarkImage == [cols |-> 1024, rows |-> 768]

StartRun(datasetName, name, lpsiftWindowSizes, saveOutput, thisBaselineH) ==
    RunEntry(datasetName, BenchmarkImage, BenchmarkImage, name, lpsiftWindowSizes,
             saveOutput, thisBaselineH)

\* an early "return metrics" of a failed run
Fail(r, reason) ==
    [r EXCEPT !.stitchingSuccess = FALSE,
              !.failureReason = reason,
              !.times = @ \cup {"totalStitchingTime"},
              !.pc = "done"]

\* a catch block that records the reason and leaves stitchingSuccess alone
CatchException_KeepSuccess(r) ==
    [r EXCEPT !.failureReason = "Exception: what",
              !.times = @ \cup {"totalStitchingTime"},
              !.pc = "done"]

\* catch (const std::exception& e) and the return after it
CatchException(r) ==
    [r EXCEPT !.stitchingSuccess = FALSE,
              !.failureReason = "Exception: what",
              !.times = @ \cup {"totalStitchingTime"},
              !.pc = "done"]

\* a library call of the given stage throws
Throw(r, stage) ==
    IF stage \in TryStages THEN CatchException(r)
    ELSE [r EXCEPT !.propagated = TRUE, !.pc = "done"]

EmptyCheck(a, b) == a = 0 \/ b = 0

\* a minimum-match check that lets every match count through
InsufficientMatches_Never(n) == n < 0

\* matches.size() < MIN_MATCHES
InsufficientMatches(n) == n < MIN_MATCHES

\* one stage of the run, from the call to the check that follows it
Step(r0, out) ==
    LET r == [r0 EXCEPT !.log = Append(@, [stage |-> r0.pc, throw |-> out.throw,
                                           val |-> out.val])]
    IN  IF out.throw /\ r.pc # "match" THEN Throw(r, r.pc)
        ELSE CASE r.pc = "detect_ref" ->
                    [r EXCEPT !.kpts1 = out.val,
                              !.numKeypointsReference = out.val,
                              !.times = @ \cup {"detectionTimeReference"},
                              !.pc = "detect_reg"]
               [] r.pc = "detect_reg" ->
                    LET d == [r EXCEPT !.kpts2 = out.val,
                                       !.numKeypointsRegistered = out.val,
                                       !.times = @ \cup {"detectionTimeRegistered"}]
                    IN  IF EmptyCheck(d.kpts1, d.kpts2) THEN Fail(d, "Empty keypoints")
                        ELSE [d EXCEPT !.pc = "describe_ref"]
               [] r.pc = "describe_ref" ->
                    [r EXCEPT !.kpts1 = out.val,
                              !.desc1 = out.val,
                              !.times = @ \cup {"descriptorTimeReference"},
                              !.pc = "describe_reg"]
               [] r.pc = "describe_reg" ->
                    LET d == [r EXCEPT !.kpts2 = out.val,
                                       !.desc2 = out.val,
                                       !.times = @ \cup {"descriptorTimeRegistered"},
                                       !.numKeypointsReference = r.kpts1,
                                       !.numKeypointsRegistered = out.val]
                    IN  IF EmptyCheck(d.desc1, d.desc2) THEN Fail(d, "Empty descriptors")
                        ELSE [d EXCEPT !.pc = "match"]
               [] r.pc = "match" ->
                    IF out.throw THEN Fail(r, "Over size")
                    ELSE LET d == [r EXCEPT !.matches = out.val,
                                            !.numMatches = out.val,
                                            !.times = @ \cup {"matchingTime"}]
                         IN  IF InsufficientMatches(d.matches)
                             THEN Fail(d, "Insufficient matches (<4)")
                             ELSE [d EXCEPT !.pc = "homography"]
               [] r.pc = "homography" ->
                    LET H == IF out.val = 0 THEN EmptyH
                             ELSE HomographyOf(r.datasetName, r.algorithmName)
                        d == [r EXCEPT !.H = H, !.times = @ \cup {"homographyTime"}]
                    IN  IF H = EmptyH THEN Fail(d, "Homography computation failed")
                        ELSE [d EXCEPT !.pc = "warp"]
               [] r.pc = "warp" ->
                    LET b == IF r.algorithmName = "SIFT" THEN r.H ELSE r.thisBaselineH
                    IN  [r EXCEPT !.times = @ \cup {"warpingTime", "totalStitchingTime"},
                                  !.stitchingSuccess = TRUE,
                                  !.homography = r.H,
                                  !.thisBaselineH = b,
                                  !.baselineH = b,
                                  !.pc = IF r.saveOutput THEN "save" ELSE "done"]
               [] r.pc = "save" -> [r EXCEPT !.pc = "done"]

\* what the library call of the run's next stage can do
KpCounts == {0, MIN_MATCHES, MAX_KEYPOINTS_BF, MAX_KEYPOINTS_BF + 1}

MatchCounts == {0, MIN_MATCHES - 1, MIN_MATCHES}

Returns(vals) == {[throw |-> FALSE, val |-> v] : v \in vals}

Throws == {[throw |-> TRUE, val |-> 0]}

Outcomes(r) ==
    Throws \cup
    CASE r.pc \in {"detect_ref", "detect_reg"} -> Returns(KpCounts)
      [] r.pc = "describe_ref" -> Returns({c \in KpCounts : c <= r.kpts1})
      [] r.pc = "describe_reg" -> Returns({c \in KpCounts : c <= r.kpts2})
      [] r.pc = "match" -> Returns({n \in MatchCounts : n <= r.desc1})
      [] r.pc = "homography" -> Returns({0, 1})
      [] r.pc \in {"warp", "save"} -> Returns({1})

(***************************************************************************)
(* SpecDetect: one detector object, one image, one detect call.            *)
(***************************************************************************)
WindowValues == 1 .. MaxDim

\* window-size lists of up to MaxWindows entries, in ascending order as every
\* caller builds them (getWindowSize, DEFAULT_WINDOW_SIZES)
RECURSIVE WindowLists(_)
WindowLists(n) ==
    IF n = 0 THEN {<<>>}
    ELSE LET shorter == WindowLists(n - 1)
         IN  shorter \cup
             {Append(ws, L) : ws \in {s \in shorter : Len(s) = n - 1},
                              L \in WindowValues}

Ascending(ws) == \A i, j \in DOMAIN ws : i < j => ws[i] < ws[j]

AlphaValues == {-DEFAULT_LINEAR_NOISE_ALPHA, 0, DEFAULT_LINEAR_NOISE_ALPHA}

\* what the caller's keypoint vector may hold before the call
StaleKeypoint ==
    [x |-> 0, y |-> 0, size |-> 1, response |-> [v |-> 0, off |-> 0],
     angle |-> -1, octave |-> 0, class_id |-> 1]

InitDetect ==
    /\ MainIdle
    /\ image \in Images
    /\ windowSizes_ \in {ws \in WindowLists(MaxWindows) : Ascending(ws)}
    /\ linearNoiseAlpha_ \in AlphaValues
    /\ keypoints \in {<<>>, <<StaleKeypoint>>}
    /\ descriptors = ReleasedMat
    /\ grayWithRamp = ToFloat(EmptyImage)
    /\ tiles = <<>>
    /\ lpPc = "idle"
    /\ BenchmarkIdle

\* a detect that appends to whatever the caller's vector holds
ClearKeypoints_Keep(kps) == kps

\* keypoints.clear()
ClearKeypoints(kps) == <<>>

DetectLPSIFT ==
    /\ lpPc = "idle"
    /\ LET r == LPSIFT_detectAnyWindow(image, windowSizes_, linearNoiseAlpha_)
       IN  /\ keypoints' = ClearKeypoints(keypoints) \o r.done.keypoints
           /\ tiles' = r.done.tiles
           /\ grayWithRamp' = r.done.ramped
           /\ lpPc' \in r.ends
    /\ UNCHANGED <<mainVars, image, windowSizes_, linearNoiseAlpha_, descriptors, runVars, sweepVars, bmPc>>

DetectLPORB ==
    /\ lpPc = "idle"
    /\ LET r == LPORB_detect(image, windowSizes_, linearNoiseAlpha_)
       IN  /\ keypoints' = ClearKeypoints(keypoints) \o r.keypoints
           /\ tiles' = r.tiles
           /\ grayWithRamp' = r.ramped
    /\ lpPc' = "detected_lporb"
    /\ UNCHANGED <<mainVars, image, windowSizes_, linearNoiseAlpha_, descriptors, runVars, sweepVars, bmPc>>

NextDetect == DetectLPSIFT \/ DetectLPORB

SpecDetect == InitDetect /\ [][NextDetect]_vars

(***************************************************************************)
(* Claims settled under SpecDetect.                                        *)
(***************************************************************************)
Detected == lpPc \in {"detected_lpsift", "detected_lporb"}

NumPixels(img) == img.rows * img.cols

TilesCovering(idx, p) ==
    {k \in DOMAIN tiles : tiles[k].idx = idx /\ p \in TilePixels(tiles[k], image.cols)}

TileInsideImage(t) ==
    /\ t.x >= 0 /\ t.y >= 0 /\ t.w >= 1 /\ t.h >= 1
    /\ t.x + t.w <= image.cols /\ t.y + t.h <= image.rows

\* C1: for every non-empty image and every window size L >= 1, the tiles a
\* local-peak detector (LPSIFT or LPORB) searched lie inside the image and
\* every pixel lies in exactly one tile of that window size.
C1_TilesPartitionImage ==
    (Detected /\ ~IsEmpty(image)) =>
        /\ \A k \in DOMAIN tiles : TileInsideImage(tiles[k])
        /\ \A i \in DOMAIN windowSizes_ : \A p \in DOMAIN image.pix :
              Cardinality(TilesCovering(i - 1, p)) = 1

\* the same statement for LPSIFT::detect alone, which clips the border tiles
C1_LPSIFT_TilesPartitionImage ==
    (lpPc = "detected_lpsift" /\ ~IsEmpty(image)) =>
        /\ \A k \in DOMAIN tiles : TileInsideImage(tiles[k])
        /\ \A i \in DOMAIN windowSizes_ : \A p \in DOMAIN image.pix :
              Cardinality(TilesCovering(i - 1, p)) = 1

RampInjective(fimg) ==
    \A p, q \in DOMAIN fimg.pix : p # q => fimg.pix[p] # fimg.pix[q]

\* C2: after addLinearRamp with alpha > 0 on an image of at least 2 pixels no
\* two distinct raster positions hold the same ramped value; with alpha <= 0
\* or an empty image the working copy equals the converted source.
C2_RampInjective ==
    Detected =>
        /\ (linearNoiseAlpha_ > 0 /\ NumPixels(image) >= 2) => RampInjective(grayWithRamp)
        /\ (linearNoiseAlpha_ <= 0 \/ IsEmpty(image)) => grayWithRamp = ToFloat(image)

\* the identity half of C2, which the code does satisfy
C2_NoRampIsIdentity ==
    (Detected /\ (linearNoiseAlpha_ <= 0 \/ IsEmpty(image))) =>
        grayWithRamp = ToFloat(image)

ConstantNeighbourhood(img, x, y) ==
    LET N == Neighborhood(img, x, y)
    IN  /\ Cardinality(N) >= 2
        /\ \A i, j \in N : img.pix[i] = img.pix[j]

ConstantImage(img) == \A i, j \in DOMAIN img.pix : img.pix[i] = img.pix[j]

\* C3: LPSIFT::detect never emits a keypoint at a position whose clipped 3x3
\* neighbourhood in the un-ramped source is constant and holds at least 2
\* pixels; on a constant image of at least 2 pixels it returns no keypoint,
\* whatever the window sizes and alpha.
C3_FlatNeighbourhoodNotEmitted ==
    lpPc = "detected_lpsift" =>
        /\ \A k \in DOMAIN keypoints :
              ~ConstantNeighbourhood(image, keypoints[k].x, keypoints[k].y)
        /\ (ConstantImage(image) /\ NumPixels(image) >= 2) => keypoints = <<>>

\* a constant image of 2 or more pixels was searched with the ramp on, tile by
\* tile, and no keypoint came out
C3_Witness ==
    /\ lpPc = "detected_lpsift"
    /\ ConstantImage(image) /\ NumPixels(image) >= 2
    /\ linearNoiseAlpha_ > 0
    /\ Len(tiles) >= 2
    /\ keypoints = <<>>

(***************************************************************************)
(* SpecCompute: LPSIFT::compute on the caller's keypoints, either the ones *)
(* LPSIFT::detect returned for the image or a list built elsewhere.        *)
(***************************************************************************)
Compute ==
    /\ lpPc \in {"idle", "detected_lpsift"}
    /\ descriptors' = LPSIFT_compute(image, keypoints)
    /\ lpPc' = "computed"
    /\ UNCHANGED <<mainVars, image, windowSizes_, linearNoiseAlpha_, keypoints, grayWithRamp, tiles, runVars, sweepVars, bmPc>>

\* a detectAndCompute that runs detect whatever the flag says
RunsDetect_Always(useProvidedKeypoints) == TRUE

\* if (!useProvidedKeypoints) detect(image, keypoints, mask)
RunsDetect(useProvidedKeypoints) == ~useProvidedKeypoints

\* LPSIFT::detectAndCompute: what it leaves in keypoints and descriptors, and
\* the tiles and working copy of the detect it ran, if it ran one
LPSIFT_detectAndCompute(img, kps, windowSizes, alpha, useProvidedKeypoints) ==
    LET detected == LPSIFT_detect(img, windowSizes, alpha)
        kp == IF RunsDetect(useProvidedKeypoints)
              THEN ClearKeypoints(kps) \o detected.keypoints
              ELSE kps
    IN  [keypoints |-> kp,
         descriptors |-> IF kp = <<>> THEN ReleasedMat ELSE LPSIFT_compute(img, kp),
         ranDetect |-> RunsDetect(useProvidedKeypoints),
         tiles |-> detected.tiles,
         ramped |-> detected.ramped]

\* the supplied keypoints are the caller's own or those of an earlier detect
DetectAndCompute ==
    \E useProvidedKeypoints \in BOOLEAN :
        /\ lpPc \in (IF useProvidedKeypoints THEN {"idle", "detected_lpsift"} ELSE {"idle"})
        /\ LET r == LPSIFT_detectAndCompute(image, keypoints, windowSizes_,
                                            linearNoiseAlpha_, useProvidedKeypoints)
           IN  /\ keypoints' = r.keypoints
               /\ descriptors' = r.descriptors
               /\ tiles' = IF r.ranDetect THEN r.tiles ELSE tiles
               /\ grayWithRamp' = IF r.ranDetect THEN r.ramped ELSE grayWithRamp
        /\ lpPc' = IF useProvidedKeypoints THEN "dac_provided" ELSE "dac_detected"
        /\ UNCHANGED <<mainVars, image, windowSizes_, linearNoiseAlpha_, runVars, sweepVars, bmPc>>

NextCompute == DetectLPSIFT \/ Compute \/ DetectAndCompute

SpecCompute == InitDetect /\ [][NextCompute]_vars

(***************************************************************************)
(* Claims settled under SpecCompute.                                       *)
(***************************************************************************)
\* C4: LPSIFT::compute on a non-empty image returns one row of 64 entries per
\* keypoint, row i being the descriptor of keypoint i, whatever the keypoints'
\* window sizes; it leaves the keypoint list as it was; an empty keypoint list
\* gives a released (empty) descriptor matrix.
C4_DescriptorShape ==
    [][Compute =>
        /\ keypoints' = keypoints
        /\ (keypoints = <<>> => descriptors' = ReleasedMat)
        /\ (keypoints # <<>> /\ ~IsEmpty(image)) =>
              /\ descriptors'.rows = Len(keypoints)
              /\ descriptors'.cols = 64
              /\ Len(descriptors'.data) = Len(keypoints)
              /\ \A i \in DOMAIN keypoints :
                    /\ Len(descriptors'.data[i].vec) = 64
                    /\ descriptors'.data[i] = computeDescriptor(image, keypoints[i])
    ]_vars

\* compute has returned descriptors for several keypoints of two window sizes,
\* one too small to sample and one whose histogram holds gradient
C4_Witness ==
    /\ lpPc = "computed"
    /\ ~IsEmpty(image)
    /\ Len(keypoints) >= 3
    /\ descriptors.rows = Len(keypoints)
    /\ \E i, j \in DOMAIN keypoints :
          /\ keypoints[i].class_id <= 2
          /\ SumSquares(RawHistogram(image, keypoints[j])) > 0

NormSquaredTimesDen(row) == SumSeq([k \in DOMAIN row.vec |-> row.vec[k].num])

\* C5: a keypoint whose raw histogram has L2 norm > 1e-7 gets a descriptor of
\* L2 norm 1 (sum of squares num/den equal to 1) after clipping at 0.2 * norm
\* and re-normalising; a keypoint whose neighbourhood has no gradient gets the
\* all-zero descriptor; no division by a norm <= 1e-7 (den = 0) occurs.
C5_DescriptorNormalised ==
    (lpPc = "computed" /\ descriptors.rows > 0) =>
        \A i \in DOMAIN descriptors.data :
            LET row == descriptors.data[i]
                raw == RawHistogram(image, keypoints[i])
            IN  /\ SumSquares(raw) > 0 =>
                      /\ row.divided
                      /\ NormSquaredTimesDen(row) = row.den
                      /\ \A k \in DOMAIN row.vec :
                            /\ row.vec[k].sgn = Sign(raw[k])
                            /\ row.vec[k].num <= SumSquares(raw)
                /\ SumSquares(raw) = 0 =>
                      \A k \in DOMAIN row.vec : row.vec[k].num = 0 /\ row.vec[k].sgn = 0
                /\ row.divided => row.den > 0

\* a descriptor was computed from a histogram with gradient, entries were
\* clipped, and the result has norm 1
C5_Witness ==
    /\ lpPc = "computed"
    /\ \E i \in DOMAIN descriptors.data :
          LET row == descriptors.data[i]
              raw == RawHistogram(image, keypoints[i])
          IN  /\ SumSquares(raw) > 0
              /\ \E k \in DOMAIN raw : 25 * raw[k] * raw[k] > SumSquares(raw)
              /\ row.divided
              /\ NormSquaredTimesDen(row) = row.den

(***************************************************************************)
(* SpecRun: one call of runSingleBenchmark, stage by stage.                *)
(***************************************************************************)
LocalPeakIdle ==
    /\ image = EmptyImage
    /\ windowSizes_ = <<>>
    /\ linearNoiseAlpha_ = DEFAULT_LINEAR_NOISE_ALPHA
    /\ keypoints = <<>>
    /\ descriptors = ReleasedMat
    /\ grayWithRamp = ToFloat(EmptyImage)
    /\ tiles = <<>>
    /\ lpPc = "idle"

DetectorNames == <<"SIFT", "ORB", "BRISK", "SURF", "LP-SIFT">>

\* getWindowSize
WindowSizesOfImage == <<16, 32, 64, 128, 256>>

InitRun ==
    /\ MainIdle
    /\ LocalPeakIdle
    /\ baselineH \in {NoH, HomographyOf("set0", "SIFT")}
    /\ outputPath \in {"", "out"}
    /\ \E i \in DOMAIN DetectorNames :
          run = StartRun("set1", DetectorNames[i], WindowSizesOfImage, outputPath # "",
                         baselineH)
    /\ dirExists = TRUE
    /\ imageSets = <<>>
    /\ filteredImageSets = {}
    /\ filteredDetectors = {}
    /\ setIdx = 0
    /\ detectors_ = <<>>
    /\ detIdx = 0
    /\ results = <<>>
    /\ allResults = <<>>
    /\ failedRuns = 0
    /\ bmPc = "running"

\* the stage the run stands at, with one of the outcomes its library call has
RunStage(stage) ==
    /\ bmPc = "running"
    /\ run.pc = stage
    /\ \E out \in Outcomes(run) :
          /\ run' = Step(run, out)
          /\ baselineH' = Step(run, out).thisBaselineH
    /\ UNCHANGED <<mainVars, lpVars, sweepVars, bmPc>>

DetectReference == RunStage("detect_ref")
DetectRegistered == RunStage("detect_reg")
DescribeReference == RunStage("describe_ref")
DescribeRegistered == RunStage("describe_reg")
Match == RunStage("match")
Homography == RunStage("homography")
WarpAndBlend == RunStage("warp")
SaveStitched == RunStage("save")

\* return metrics, or the exception leaving the call
ReturnMetrics ==
    /\ bmPc = "running"
    /\ run.pc = "done"
    /\ bmPc' = IF run.propagated THEN "aborted" ELSE "returned"
    /\ UNCHANGED <<mainVars, lpVars, runVars, sweepVars>>

NextRun ==
    \/ DetectReference
    \/ DetectRegistered
    \/ DescribeReference
    \/ DescribeRegistered
    \/ Match
    \/ Homography
    \/ WarpAndBlend
    \/ SaveStitched
    \/ ReturnMetrics

SpecRun == InitRun /\ [][NextRun]_vars

(***************************************************************************)
(* Claims settled under SpecRun.                                           *)
(***************************************************************************)
RunActive == run.pc # "none"

Attempted(stage) == \E i \in DOMAIN run.log : run.log[i].stage = stage

\* what the call of the stage returned, -1 if it threw or was not attempted
Returned(stage) ==
    IF \E i \in DOMAIN run.log : run.log[i].stage = stage /\ ~run.log[i].throw
    THEN LET i == CHOOSE j \in DOMAIN run.log : run.log[j].stage = stage
         IN  run.log[i].val
    ELSE -1

NoLibraryThrow == \A i \in DOMAIN run.log : ~run.log[i].throw

\* C7: when detection returned non-empty keypoint lists and one of them holds
\* more than MAX_KEYPOINTS_BF keypoints, the run ends as a failure whose reason
\* says there are too many keypoints, and the matcher is not invoked with a
\* list above the cap (stated for runs in which no library call throws).
C7_KeypointCapEnforced ==
    (/\ RunActive
     /\ NoLibraryThrow
     /\ Returned("detect_ref") > 0 /\ Returned("detect_reg") > 0
     /\ (Returned("detect_ref") > MAX_KEYPOINTS_BF \/ Returned("detect_reg") > MAX_KEYPOINTS_BF))
    => /\ run.pc = "done" =>
            /\ ~run.stitchingSuccess
            /\ run.failureReason = "Too many keypoints"
       /\ Attempted("match") =>
            /\ run.kpts1 <= MAX_KEYPOINTS_BF
            /\ run.kpts2 <= MAX_KEYPOINTS_BF

\* C9: in the record runSingleBenchmark returns, stitchingSuccess is true
\* exactly when failureReason is empty.
C9_SuccessIffNoReason ==
    (bmPc = "returned" /\ RunActive) =>
        (run.stitchingSuccess <=> run.failureReason = "")

\* a run returned as failed after an exception that was thrown once the run
\* had been marked successful
C9_Witness ==
    /\ bmPc = "returned"
    /\ RunActive
    /\ Attempted("save")
    /\ ~run.stitchingSuccess
    /\ run.failureReason = "Exception: what"

StageOrder ==
    << "detect_ref", "detect_reg", "describe_ref", "describe_reg", "match",
       "homography", "warp" >>

AttemptedStages == SelectSeq([i \in DOMAIN run.log |-> run.log[i].stage],
                             LAMBDA st : st # "save")

\* C10: the stages are attempted in the order detect(ref), detect(reg),
\* describe(ref), describe(reg), match, homography, warp-and-blend, each at
\* most once; describe only after both detections returned keypoints, match
\* only after both describe calls returned descriptors, homography only with
\* at least 4 matches, warp-and-blend only with a non-empty homography; a run
\* is marked successful only after warp-and-blend completed.
C10_StageOrdering ==
    RunActive =>
        /\ Len(AttemptedStages) <= Len(StageOrder)
        /\ \A i \in DOMAIN AttemptedStages : AttemptedStages[i] = StageOrder[i]
        /\ Attempted("describe_ref") =>
              Returned("detect_ref") > 0 /\ Returned("detect_reg") > 0
        /\ Attempted("match") =>
              Returned("describe_ref") > 0 /\ Returned("describe_reg") > 0
        /\ Attempted("homography") => Returned("match") >= 4
        /\ Attempted("warp") => Returned("homography") > 0 /\ run.H.kind = "H"
        /\ run.stitchingSuccess => Returned("warp") > 0

\* a run went through all seven stages and was marked successful
C10_Witness ==
    /\ RunActive
    /\ AttemptedStages = StageOrder
    /\ run.stitchingSuccess
    /\ run.pc = "done"

(***************************************************************************)
(* BenchmarkRunner::runAllDetectors.  What the library calls of one run do *)
(* is a profile: the outcome of each stage, should the run reach it.       *)
(***************************************************************************)
\* the fields of StitchingMetrics the run filled in
Metrics(r) ==
    [datasetName |-> r.datasetName,
     algorithmName |-> r.algorithmName,
     windowSizes |-> r.windowSizes,
     referenceWidth |-> r.referenceWidth,
     referenceHeight |-> r.referenceHeight,
     registeredWidth |-> r.registeredWidth,
     registeredHeight |-> r.registeredHeight,
     sizeCategory |-> r.sizeCategory,
     numKeypointsReference |-> r.numKeypointsReference,
     numKeypointsRegistered |-> r.numKeypointsRegistered,
     numMatches |-> r.numMatches,
     stitchingSuccess |-> r.stitchingSuccess,
     failureReason |-> r.failureReason,
     times |-> r.times,
     homography |-> r.homography,
     baselineH |-> r.baselineH]

Nominal ==
    [st \in StageNames |->
        [throw |-> FALSE,
         val |-> IF st \in {"homography", "warp", "save"} THEN 1 ELSE MIN_MATCHES]]

ThrowAt(st) == [Nominal EXCEPT ![st] = [throw |-> TRUE, val |-> 0]]

ReturnAt(st, v) == [Nominal EXCEPT ![st] = [throw |-> FALSE, val |-> v]]

FaultProfiles ==
    {ThrowAt(st) : st \in StageNames}
    \cup {ReturnAt("detect_ref", 0), ReturnAt("describe_reg", 0),
          ReturnAt("match", MIN_MATCHES - 1), ReturnAt("homography", 0)}

\* runSingleBenchmark from entry to return under one profile
RECURSIVE RunToEnd(_, _)
RunToEnd(r, profile) ==
    IF r.pc = "done" THEN r ELSE RunToEnd(Step(r, profile[r.pc]), profile)

runSingleBenchmark(datasetName, name, lpsiftWindowSizes, outPath, thisBaselineH, profile) ==
    RunToEnd(StartRun(datasetName, name, lpsiftWindowSizes, outPath # "", thisBaselineH),
             profile)

\* the loop of runAllDetectors from detector i on; stops where an exception
\* leaves runSingleBenchmark
RECURSIVE runAllDetectorsFrom(_, _, _, _, _, _, _)
runAllDetectorsFrom(i, dets, datasetName, windowSizes, outPath, profiles, acc) ==
    IF i > Len(dets) THEN acc
    ELSE LET r == runSingleBenchmark(datasetName, dets[i], windowSizes, outPath,
                                     acc.baselineH, profiles[i])
         IN  IF r.propagated THEN [acc EXCEPT !.propagated = TRUE]
             ELSE runAllDetectorsFrom(i + 1, dets, datasetName, windowSizes, outPath,
                                      profiles,
                                      [acc EXCEPT !.results = Append(@, Metrics(r)),
                                                  !.baselineH = r.thisBaselineH])

runAllDetectors(dets, datasetName, windowSizes, outPath, thisBaselineH, profiles) ==
    runAllDetectorsFrom(1, dets, datasetName, windowSizes, outPath, profiles,
                        [results |-> <<>>, baselineH |-> thisBaselineH,
                         propagated |-> FALSE])

(***************************************************************************)
(* SpecAllDetectors: one call of runAllDetectors, one detector per step.   *)
(***************************************************************************)
FourDetectors == <<"SIFT", "ORB", "BRISK", "SURF">>

InitAllDetectors ==
    /\ MainIdle
    /\ LocalPeakIdle
    /\ run = NoRun
    /\ baselineH \in {NoH, HomographyOf("set0", "SIFT")}
    /\ outputPath \in {"", "out"}
    /\ dirExists = TRUE
    /\ imageSets = <<>>
    /\ filteredImageSets = {}
    /\ filteredDetectors = {}
    /\ setIdx = 0
    /\ detectors_ \in {<<>>, FourDetectors, DetectorNames}
    /\ detIdx = 1
    /\ results = <<>>
    /\ allResults = <<>>
    /\ failedRuns = 0
    /\ bmPc = "running_all"

\* one iteration of the loop: runSingleBenchmark and results.push_back
RunNextDetector ==
    /\ bmPc = "running_all"
    /\ detIdx <= Len(detectors_)
    /\ \E profile \in {Nominal} \cup {f \in FaultProfiles : failedRuns < MaxFailedRuns} :
          LET r == runSingleBenchmark("set1", detectors_[detIdx], WindowSizesOfImage,
                                      outputPath, baselineH, profile)
          IN  /\ run' = r
              /\ baselineH' = r.thisBaselineH
              /\ failedRuns' = IF profile = Nominal THEN failedRuns ELSE failedRuns + 1
              /\ IF r.propagated
                 THEN /\ bmPc' = "aborted"
                      /\ UNCHANGED <<results, detIdx>>
                 ELSE /\ results' = Append(results, Metrics(r))
                      /\ detIdx' = detIdx + 1
                      /\ bmPc' = bmPc
    /\ UNCHANGED <<mainVars, lpVars, dirExists, imageSets, filteredImageSets, filteredDetectors,
                   setIdx, detectors_, outputPath, allResults>>

ReturnResults ==
    /\ bmPc = "running_all"
    /\ detIdx > Len(detectors_)
    /\ bmPc' = "returned"
    /\ UNCHANGED <<mainVars, lpVars, runVars, sweepVars>>

NextAllDetectors == RunNextDetector \/ ReturnResults

SpecAllDetectors == InitAllDetectors /\ [][NextAllDetectors]_vars

(***************************************************************************)
(* Claim settled under SpecAllDetectors.                                   *)
(***************************************************************************)
\* C8: no failure of a stage of runSingleBenchmark (detect, compute, match,
\* homography, warp, image write) reaches its caller, and runAllDetectors
\* returns exactly one metrics record per registered detector, in registration
\* order, whichever runs failed.
C8_RunFailuresIsolated ==
    /\ bmPc # "aborted"
    /\ run # NoRun => ~run.propagated
    /\ bmPc = "running_all" =>
          /\ Len(results) = detIdx - 1
          /\ \A i \in DOMAIN results : results[i].algorithmName = detectors_[i]
    /\ bmPc = "returned" =>
          /\ Len(results) = Len(detectors_)
          /\ \A i \in DOMAIN results : results[i].algorithmName = detectors_[i]

\* runAllDetectors returned one record per detector although a run in the
\* middle failed with an exception thrown while the stitched image was written
C8_Witness ==
    /\ bmPc = "returned"
    /\ Len(results) = Len(detectors_)
    /\ Len(results) >= 4
    /\ \E i \in DOMAIN results :
          /\ 1 < i /\ i < Len(results)
          /\ results[i].failureReason = "Exception: what"
          /\ "warpingTime" \in results[i].times
          /\ results[i + 1].stitchingSuccess

(***************************************************************************)
(* BenchmarkRunner::runOnDirectory.                                        *)
(***************************************************************************)
SetNames == <<"set1", "set2", "set3", "set4", "set5", "set6", "set7", "set8">>

\* the directory listing after std::sort, with what imread will find
Directory(n, missing) ==
    [i \in 1 .. n |->
        [name |-> SetNames[i],
         registeredOk |-> missing # <<i, "registered">>,
         referenceOk |-> missing # <<i, "reference">>]]

Directories ==
    {Directory(MaxSets, <<0, "none">>)}
    \cup {Directory(MaxSets, <<i, f>>) : i \in 1 .. MaxSets, f \in {"registered", "reference"}}

Selected(filter, setName) == filter = {} \/ setName \in filter

Loadable(set) == set.registeredOk /\ set.referenceOk

clearDetectors_Keep(dets) == dets

\* detectors_.clear()
clearDetectors(dets) == <<>>

\* detectors_.push_back({name, detector, norm, matcherType})
addDetector(dets, name) == Append(dets, name)

RECURSIVE addDetectors(_, _)
addDetectors(dets, names) ==
    IF names = <<>> THEN dets
    ELSE addDetectors(addDetector(dets, Head(names)), Tail(names))

\* clearDetectors and the addDetector calls; detectorFilterProfile is
\* value-initialised, so LPSIFT is false in it
FilterKeys(detectorFilter) == {e.key : e \in detectorFilter}

RegisteredDetectors(detectorFilter, setName) ==
    LET globalFilters == "" \in FilterKeys(detectorFilter)
        allFilters == setName \notin FilterKeys(detectorFilter) /\ ~globalFilters
        detectorFilterProfile == [LPSIFT |-> FALSE]
    IN  <<"SIFT", "ORB", "BRISK", "SURF">>
        \o (IF allFilters \/ detectorFilterProfile.LPSIFT THEN <<"LP-SIFT">> ELSE <<>>)

\* a load failure that ends the loop
AfterLoadFailure_Stop(idx, len) == len + 1

\* `continue`: on to the next image set
AfterLoadFailure(idx, len) == idx + 1

SweepFaults == {ThrowAt("detect_reg"), ReturnAt("detect_ref", 0)}

NumFaults(profiles) == Cardinality({i \in DOMAIN profiles : profiles[i] # Nominal})

(***************************************************************************)
(* SpecSweep: one call of runOnDirectory, one image set per step.          *)
(***************************************************************************)
InitSweep ==
    /\ MainIdle
    /\ LocalPeakIdle
    /\ run = NoRun
    /\ baselineH = NoH
    /\ outputPath \in {"", "out"}
    /\ \/ /\ dirExists = TRUE
          /\ imageSets \in Directories
          /\ filteredImageSets \in {{}, {SetNames[1]}, {SetNames[i] : i \in 2 .. MaxSets}}
          /\ filteredDetectors \in
                {{}} \cup {{[key |-> k, filter |-> f]} : k \in {"", SetNames[1]},
                                                        f \in {{"LPSIFT"}, {"ORB"}}}
       \/ /\ dirExists = FALSE
          /\ imageSets = <<>>
          /\ filteredImageSets = {}
          /\ filteredDetectors = {}
    /\ setIdx = 1
    /\ detectors_ = <<>>
    /\ detIdx = 0
    /\ results = <<>>
    /\ allResults = <<>>
    /\ failedRuns = 0
    /\ bmPc = "sweeping"

\* !fs::exists(imageDir) || !fs::is_directory(imageDir)
DirectoryMissing ==
    /\ bmPc = "sweeping"
    /\ ~dirExists
    /\ bmPc' = "returned"
    /\ UNCHANGED <<mainVars, lpVars, runVars, sweepVars>>

InLoop == bmPc = "sweeping" /\ dirExists /\ setIdx <= Len(imageSets)

\* the set is not in filteredImageSets
SkipUnselected ==
    /\ InLoop
    /\ ~Selected(filteredImageSets, imageSets[setIdx].name)
    /\ setIdx' = setIdx + 1
    /\ UNCHANGED <<mainVars, lpVars, runVars, bmPc, dirExists, imageSets, filteredImageSets,
                   filteredDetectors, detectors_, outputPath, detIdx, results,
                   allResults, failedRuns>>

\* registered.empty() || reference.empty()
SkipUnloadable ==
    /\ InLoop
    /\ Selected(filteredImageSets, imageSets[setIdx].name)
    /\ ~Loadable(imageSets[setIdx])
    /\ setIdx' = AfterLoadFailure(setIdx, Len(imageSets))
    /\ UNCHANGED <<mainVars, lpVars, runVars, bmPc, dirExists, imageSets, filteredImageSets,
                   filteredDetectors, detectors_, outputPath, detIdx, results,
                   allResults, failedRuns>>

\* register the detectors, runAllDetectors, append its results
ProcessSet ==
    /\ InLoop
    /\ Selected(filteredImageSets, imageSets[setIdx].name)
    /\ Loadable(imageSets[setIdx])
    /\ LET setName == imageSets[setIdx].name
           dets == addDetectors(clearDetectors(detectors_),
                                RegisteredDetectors(filteredDetectors, setName))
       IN  /\ detectors_' = dets
           /\ \E profiles \in [DOMAIN dets -> {Nominal} \cup SweepFaults] :
                 /\ failedRuns + NumFaults(profiles) <= MaxSweepFaults
                 /\ failedRuns' = failedRuns + NumFaults(profiles)
                 /\ LET ret == runAllDetectors(dets, setName, WindowSizesOfImage,
                                               outputPath, baselineH, profiles)
                    IN  /\ baselineH' = ret.baselineH
                        /\ results' = ret.results
                        /\ IF ret.propagated
                           THEN /\ bmPc' = "aborted"
                                /\ UNCHANGED <<allResults, setIdx>>
                           ELSE /\ allResults' = allResults \o ret.results
                                /\ setIdx' = setIdx + 1
                                /\ bmPc' = bmPc
    /\ UNCHANGED <<mainVars, lpVars, run, dirExists, imageSets, filteredImageSets,
                   filteredDetectors, outputPath, detIdx>>

ReturnAllResults ==
    /\ bmPc = "sweeping"
    /\ dirExists
    /\ setIdx > Len(imageSets)
    /\ bmPc' = "returned"
    /\ UNCHANGED <<mainVars, lpVars, runVars, sweepVars>>

NextSweep ==
    \/ DirectoryMissing
    \/ SkipUnselected
    \/ SkipUnloadable
    \/ ProcessSet
    \/ ReturnAllResults

SpecSweep == InitSweep /\ [][NextSweep]_vars

(***************************************************************************)
(* Claim settled under SpecSweep.                                          *)
(***************************************************************************)
\* the (set, detector) pairs that the first n image sets owe a row each
RowsOwed(n) ==
    Concat([i \in 1 .. n |->
              IF Selected(filteredImageSets, imageSets[i].name) /\ Loadable(imageSets[i])
              THEN LET dets == RegisteredDetectors(filteredDetectors, imageSets[i].name)
                   IN  [j \in DOMAIN dets |-> <<imageSets[i].name, dets[j]>>]
              ELSE <<>>])

RowsPresent == [k \in DOMAIN allResults |->
                   <<allResults[k].datasetName, allResults[k].algorithmName>>]

\* C6: in runOnDirectory a selected image set whose reference or registered
\* image cannot be loaded contributes no rows and does not stop the sweep:
\* when the call returns, allResults holds, in order, one row per registered
\* detector for every selected loadable set, before and after the unloadable
\* one, and no exception has left the call.
C6_LoadFailureIsolated ==
    /\ bmPc # "aborted"
    /\ (bmPc = "sweeping" /\ dirExists) => RowsPresent = RowsOwed(setIdx - 1)
    /\ (bmPc = "returned" /\ dirExists) =>
          /\ setIdx = Len(imageSets) + 1
          /\ RowsPresent = RowsOwed(Len(imageSets))

\* the sweep returned with rows for the sets before and after a selected set
\* that could not be loaded
C6_Witness ==
    /\ bmPc = "returned"
    /\ \E i \in DOMAIN imageSets :
          /\ 1 < i /\ i < Len(imageSets)
          /\ Selected(filteredImageSets, imageSets[i].name)
          /\ ~Loadable(imageSets[i])
          /\ \E k \in DOMAIN allResults : allResults[k].datasetName = imageSets[i - 1].name
          /\ \E k \in DOMAIN allResults : allResults[k].datasetName = imageSets[i + 1].name
          /\ \A k \in DOMAIN allResults : allResults[k].datasetName # imageSets[i].name

(***************************************************************************)
(* Further claims settled under SpecRun.                                   *)
(***************************************************************************)
\* the StitchingMetrics field that holds the elapsed time of a stage
TimeField(stage) ==
    CASE stage = "detect_ref" -> "detectionTimeReference"
      [] stage = "detect_reg" -> "detectionTimeRegistered"
      [] stage = "describe_ref" -> "descriptorTimeReference"
      [] stage = "describe_reg" -> "descriptorTimeRegistered"
      [] stage = "match" -> "matchingTime"
      [] stage = "homography" -> "homographyTime"
      [] stage = "warp" -> "warpingTime"

\* the stage whose library call has been entered and has come back or thrown
Started(stage) == Attempted(stage)

\* C11: in every run each stage that was started has its elapsed time
\* recorded in the metrics, also the stage at which the run failed (matching
\* when the matcher throws); each stage never started keeps time 0; and
\* totalStitchingTime is recorded on every exit path.
C11_StageTimesRecorded ==
    RunActive =>
        /\ \A i \in DOMAIN StageOrder :
              Started(StageOrder[i]) <=> TimeField(StageOrder[i]) \in run.times
        /\ (run.pc = "done" /\ ~run.propagated) => "totalStitchingTime" \in run.times

\* the part of C11 the code satisfies: no time is recorded for a stage that
\* was not started, and every return records totalStitchingTime
C11_NoTimeWithoutStage ==
    RunActive =>
        /\ \A i \in DOMAIN StageOrder :
              TimeField(StageOrder[i]) \in run.times => Started(StageOrder[i])
        /\ (run.pc = "done" /\ ~run.propagated) => "totalStitchingTime" \in run.times

(***************************************************************************)
(* Further claim settled under SpecDetect.                                 *)
(***************************************************************************)
\* C13: detect (LPSIFT or LPORB) on an empty image ends without error and
\* leaves the caller's keypoint vector empty, whatever it held before; detect
\* with an empty window-size list likewise leaves it empty.
C13_EmptyInputNoKeypoints ==
    [][((DetectLPSIFT \/ DetectLPORB) /\ (IsEmpty(image) \/ windowSizes_ = <<>>)) =>
          /\ keypoints' = <<>>
          /\ lpPc' \in {"detected_lpsift", "detected_lporb"}
    ]_vars

\* detect has returned on an empty image that came with window sizes
C13_Witness ==
    /\ Detected
    /\ IsEmpty(image)
    /\ windowSizes_ # <<>>
    /\ keypoints = <<>>

(***************************************************************************)
(* SpecDetectAnyWindow: LPSIFT::detect with window-size lists that may     *)
(* hold non-positive entries.                                              *)
(***************************************************************************)
AnyWindowValues == {-1, 0, 1, 2}

RECURSIVE AnyWindowLists(_)
AnyWindowLists(n) ==
    IF n = 0 THEN {<<>>}
    ELSE LET shorter == AnyWindowLists(n - 1)
         IN  shorter \cup
             {Append(ws, L) : ws \in {s \in shorter : Len(s) = n - 1},
                              L \in AnyWindowValues}

InitDetectAnyWindow ==
    /\ MainIdle
    /\ image \in Images
    /\ windowSizes_ \in AnyWindowLists(MaxWindows)
    /\ linearNoiseAlpha_ = DEFAULT_LINEAR_NOISE_ALPHA
    /\ keypoints = <<>>
    /\ descriptors = ReleasedMat
    /\ grayWithRamp = ToFloat(EmptyImage)
    /\ tiles = <<>>
    /\ lpPc = "idle"
    /\ BenchmarkIdle

NextDetectAnyWindow == DetectLPSIFT

SpecDetectAnyWindow == InitDetectAnyWindow /\ [][NextDetectAnyWindow]_vars

PositiveOnly(ws) == SelectSeq(ws, LAMBDA L : L > 0)

\* position, window size and response of each keypoint
KeypointCore(kps) ==
    [k \in DOMAIN kps |-> <<kps[k].x, kps[k].y, kps[k].class_id, kps[k].response>>]

\* C12: LPSIFT::detect with a window-size list that holds a value L <= 0 ends
\* without raising and returns exactly the keypoints (position, window size,
\* response) that the list without its non-positive entries produces.
C12_NonPositiveWindowSkipped ==
    (lpPc # "idle" /\ FirstNonPositive(windowSizes_) # 0) =>
        /\ lpPc = "detected_lpsift"
        /\ KeypointCore(keypoints) =
              KeypointCore(LPSIFT_detect(image, PositiveOnly(windowSizes_),
                                         linearNoiseAlpha_).keypoints)

\* on an empty image the non-positive entries are never reached
C12_EmptyImageUnaffected ==
    (lpPc # "idle" /\ IsEmpty(image)) =>
        lpPc = "detected_lpsift" /\ keypoints = <<>>

RegisteredName(option) ==
    CASE option = "LPSIFT" -> "LP-SIFT"
      [] option = "LPORB" -> "LP-ORB"
      [] OTHER -> option

\* the filter in force for a set: its own, else the global one, else none
FilterInForce(detectorFilter, setName) ==
    IF setName \in FilterKeys(detectorFilter)
    THEN {(CHOOSE e \in detectorFilter : e.key = setName).filter}
    ELSE IF "" \in FilterKeys(detectorFilter)
    THEN {(CHOOSE e \in detectorFilter : e.key = "").filter}
    ELSE {}

\* the set processed last, once ProcessSet has registered its detectors
LastProcessed == imageSets[setIdx - 1].name

\* C15: a set processed under a detector filter (its own or the global one)
\* runs exactly SIFT plus the detectors the filter names, so a filter naming
\* LPSIFT makes LP-SIFT run and an unnamed detector other than SIFT does not
\* run; a set processed with no filter runs every registered detector,
\* LP-SIFT among them.
C15_FilterSelectsDetectors ==
    (bmPc = "sweeping" /\ detectors_ # <<>> /\ setIdx > 1
       /\ Selected(filteredImageSets, LastProcessed) /\ Loadable(imageSets[setIdx - 1])) =>
        LET inForce == FilterInForce(filteredDetectors, LastProcessed)
            ran == {detectors_[i] : i \in DOMAIN detectors_}
        IN  IF inForce = {}
            THEN {"SIFT", "ORB", "BRISK", "SURF", "LP-SIFT"} \subseteq ran
            ELSE \A f \in inForce : ran = {"SIFT"} \cup {RegisteredName(o) : o \in f}

\* the unfiltered half of C15, which the code satisfies
C15_NoFilterRunsAll ==
    (bmPc = "sweeping" /\ detectors_ # <<>> /\ setIdx > 1
       /\ Selected(filteredImageSets, LastProcessed) /\ Loadable(imageSets[setIdx - 1])
       /\ FilterInForce(filteredDetectors, LastProcessed) = {}) =>
        detectors_ = <<"SIFT", "ORB", "BRISK", "SURF", "LP-SIFT">>

SiftSucceededOn(datasetName) ==
    \E j \in DOMAIN allResults :
        /\ allResults[j].datasetName = datasetName
        /\ allResults[j].algorithmName = "SIFT"
        /\ allResults[j].stitchingSuccess

\* C19: in every record of a successful run the baseline homography is the
\* homography of the successful SIFT run of the same image set, and is empty
\* when SIFT did not succeed on that set; a baseline of an earlier set is
\* never carried into a later set's records.
C19_BaselineScopedToSet ==
    \A k \in DOMAIN allResults :
        allResults[k].stitchingSuccess =>
            allResults[k].baselineH =
                IF SiftSucceededOn(allResults[k].datasetName)
                THEN HomographyOf(allResults[k].datasetName, "SIFT")
                ELSE NoH

\* within the first processed set the baseline is that set's own
C19_FirstSetBaselineOwn ==
    \A k \in DOMAIN allResults :
        (allResults[k].stitchingSuccess
           /\ allResults[k].datasetName = allResults[1].datasetName) =>
            allResults[k].baselineH =
                IF SiftSucceededOn(allResults[k].datasetName)
                THEN HomographyOf(allResults[k].datasetName, "SIFT")
                ELSE NoH

(***************************************************************************)
(* SpecEntry: the entry of runSingleBenchmark, which fills in the image    *)
(* dimensions and the size category of the record.                         *)
(***************************************************************************)
\* 32768 x 32768 is the largest image cv::imread returns (2^30 pixels)
ImageDims == {1, 999, 1000, 1001, 3000, 32768}

InitEntry ==
    /\ MainIdle
    /\ LocalPeakIdle
    /\ baselineH = NoH
    /\ outputPath = ""
    /\ \E w \in ImageDims, h \in ImageDims, g \in {1, 3000}, name \in {"SIFT", "LP-SIFT"} :
          run = [pc |-> "call",
                 referenceImg |-> [cols |-> w, rows |-> h],
                 registeredImg |-> [cols |-> g, rows |-> g],
                 name |-> name]
    /\ dirExists = TRUE
    /\ imageSets = <<>>
    /\ filteredImageSets = {}
    /\ filteredDetectors = {}
    /\ setIdx = 0
    /\ detectors_ = <<>>
    /\ detIdx = 0
    /\ results = <<>>
    /\ allResults = <<>>
    /\ failedRuns = 0
    /\ bmPc = "running"

\* lines 209-228 of runSingleBenchmark
EnterRun ==
    /\ bmPc = "running"
    /\ run.pc = "call"
    /\ run' = RunEntry("set1", run.referenceImg, run.registeredImg, run.name,
                       WindowSizesOfImage, FALSE, baselineH)
    /\ UNCHANGED <<mainVars, lpVars, baselineH, sweepVars, bmPc>>

NextEntry == EnterRun

SpecEntry == InitEntry /\ [][NextEntry]_vars

Entered == run.pc = "detect_ref"

ReferencePixels == run.referenceWidth * run.referenceHeight

MaxArgLen == 4

Pieces == {"[", "]", ",", "LPSIFT", "set1", "-h"}

RECURSIVE Text(_)
\* the std::string a sequence of pieces spells
Text(s) == IF s = <<>> THEN "" ELSE Head(s) \o Text(Tail(s))

\* std::string::find stored in an int: the 0-based position, -1 for npos
Find(s, c) ==
    IF \E i \in 1..Len(s) : s[i] = c
    THEN (CHOOSE i \in 1..Len(s) : s[i] = c /\ \A j \in 1..(i - 1) : s[j] # c) - 1
    ELSE -1

\* std::string::substr(pos, n)
Substr(s, pos, n) == SubSeq(s, pos + 1, Min(pos + n, Len(s)))

RECURSIVE splitString(_, _)
\* std::getline until it fails: no token after a trailing delimiter
splitString(s, delimiter) ==
    IF s = <<>> THEN <<>>
    ELSE LET d == Find(s, delimiter)
         IN  IF d = -1 THEN <<s>>
             ELSE <<Substr(s, 0, d)>> \o splitString(SubSeq(s, d + 2, Len(s)), delimiter)

\* the tokens parseImageSetIdArg accepts
FilterTokens == {"SIFT", "ORB", "BRISK", "SURF", "LPSIFT", "LPORB"}

\* parseImageSetIdArg.  `throw new invalid_argument(...)` throws a pointer:
\* the exception object has type invalid_argument*.
parseImageSetIdArg(imageSetIdArg, filteredImageSetIds, theFilteredDetectors) ==
    LET squareBracketStart == Find(imageSetIdArg, "[")
        squareBracketEnd == Find(imageSetIdArg, "]")
        detectorTokens == splitString(
            Substr(imageSetIdArg, squareBracketStart + 1,
                   squareBracketEnd - squareBracketStart - 1), ",")
        unknown == {i \in 1..Len(detectorTokens) : Text(detectorTokens[i]) \notin FilterTokens}
        firstUnknown == CHOOSE i \in unknown : \A j \in unknown : i <= j
        imageSetId == Text(Substr(imageSetIdArg, 0, squareBracketStart))
        filter == {Text(detectorTokens[i]) : i \in 1..Len(detectorTokens)}
        Thrown(what) == [thrown |-> "invalid_argument*", what |-> what,
                         filteredImageSetIds |-> filteredImageSetIds,
                         filteredDetectors |-> theFilteredDetectors]
    IN  IF squareBracketStart # -1
        THEN IF squareBracketEnd # Len(imageSetIdArg) - 1
             THEN Thrown("Invalid descriptor filter syntax")
             ELSE IF squareBracketEnd - squareBracketStart <= 1
             THEN Thrown("Empty descriptor filter")
             ELSE IF unknown # {}
             THEN Thrown("Unknown detector in filter: " \o Text(detectorTokens[firstUnknown]))
             ELSE [thrown |-> "none", what |-> "",
                   filteredImageSetIds |->
                       IF imageSetId # "" THEN filteredImageSetIds \cup {imageSetId}
                       ELSE filteredImageSetIds,
                   filteredDetectors |->
                       {e \in theFilteredDetectors : e.key # imageSetId}
                           \cup {[key |-> imageSetId, filter |-> filter]}]
        ELSE [thrown |-> "none", what |-> "",
              filteredImageSetIds |-> filteredImageSetIds \cup {Text(imageSetIdArg)},
              filteredDetectors |-> theFilteredDetectors]

\* `catch (const invalid_argument& e)` takes an exception object of type
\* invalid_argument (or derived from it)
HandlerCatches(thrown) == thrown = "invalid_argument"

(***************************************************************************)
(* SpecMain: main's argument loop, up to the call of runBenchmark.         *)
(***************************************************************************)
RECURSIVE ArgsOfLen(_)
ArgsOfLen(n) ==
    IF n = 0 THEN {<<>>}
    ELSE {Append(a, p) : a \in ArgsOfLen(n - 1), p \in Pieces}

Args == UNION {ArgsOfLen(n) : n \in 0..MaxArgLen}

\* well-formed arguments that may precede the one under test
LeadingArgs == {<<"set1">>, <<"[", "LPSIFT", "]">>}

NoErr == [text |-> "", what |-> ""]

InitMain ==
    /\ LocalPeakIdle
    /\ BenchmarkIdle
    /\ report = NoReport
    /\ limit = NoLimit
    /\ blend = NoBlend
    /\ \E argv \in {<<a>> : a \in Args} \cup {<<v, a>> : v \in LeadingArgs, a \in Args} :
          process = [pc |-> "args", argv |-> argv, i |-> 1, exitStatus |-> -1,
                     thrown |-> "none", cerr |-> NoErr, usage |-> FALSE]

InArgs == process.pc = "args" /\ process.i <= Len(process.argv)

IsHelp(arg) == arg = <<"-h">>

StartsWithDash(arg) == arg # <<>> /\ Head(arg) = "-h"

\* arg == "--help" || arg == "-h"
ShowHelp ==
    /\ InArgs
    /\ IsHelp(process.argv[process.i])
    /\ process' = [process EXCEPT !.pc = "exited", !.exitStatus = 0, !.usage = TRUE]
    /\ UNCHANGED <<lpVars, runVars, sweepVars, bmPc, report, limit, blend>>

\* arg[0] != '-': the try block around parseImageSetIdArg and its handler
ParseArgument ==
    /\ InArgs
    /\ ~StartsWithDash(process.argv[process.i])
    /\ LET r == parseImageSetIdArg(process.argv[process.i], filteredImageSets,
                                   filteredDetectors)
       IN  /\ filteredImageSets' = r.filteredImageSetIds
           /\ filteredDetectors' = r.filteredDetectors
           /\ process' =
                 IF r.thrown = "none"
                 THEN [process EXCEPT !.i = @ + 1]
                 ELSE IF HandlerCatches(r.thrown)
                 THEN [process EXCEPT !.pc = "exited", !.exitStatus = 1,
                                      !.thrown = r.thrown, !.usage = TRUE,
                                      !.cerr = [text |-> "Error parsing argument",
                                                what |-> r.what]]
                 \* no handler matches: std::terminate
                 ELSE [process EXCEPT !.pc = "terminated", !.thrown = r.thrown]
    /\ UNCHANGED <<lpVars, runVars, bmPc, report, limit, blend, dirExists, imageSets, setIdx,
                   detectors_, outputPath, detIdx, results, allResults, failedRuns>>

\* any other argument that starts with '-'
UnknownOption ==
    /\ InArgs
    /\ StartsWithDash(process.argv[process.i])
    /\ ~IsHelp(process.argv[process.i])
    /\ process' = [process EXCEPT !.pc = "exited", !.exitStatus = 1, !.usage = TRUE,
                                  !.cerr = [text |-> "Unknown option",
                                            what |-> Text(process.argv[process.i])]]
    /\ UNCHANGED <<lpVars, runVars, sweepVars, bmPc, report, limit, blend>>

\* the loop is over: main calls runBenchmark
StartBenchmark ==
    /\ process.pc = "args"
    /\ process.i > Len(process.argv)
    /\ process' = [process EXCEPT !.pc = "benchmark"]
    /\ UNCHANGED <<lpVars, runVars, sweepVars, bmPc, report, limit, blend>>

NextMain == ShowHelp \/ ParseArgument \/ UnknownOption \/ StartBenchmark

SpecMain == InitMain /\ [][NextMain]_vars

ParseFailed == process.pc # "none" /\ process.thrown # "none"

\* C16: an argument with malformed filter syntax or an unknown detector name
\* makes the program report 'Error parsing argument' with the usage text and
\* exit with status 1, without starting the benchmark and without abnormal
\* termination.
C16_ParseErrorReported ==
    (process.pc \in {"args", "benchmark", "exited", "terminated"}
        /\ process.pc # "args"
        /\ process.i <= Len(process.argv)
        /\ ~StartsWithDash(process.argv[process.i])
        /\ parseImageSetIdArg(process.argv[process.i], {}, {}).thrown # "none")
    => /\ process.pc = "exited"
       /\ process.exitStatus = 1
       /\ process.cerr.text = "Error parsing argument"
       /\ process.usage

\* what does hold: after a failed parse the benchmark is not started and the
\* filters keep what the earlier arguments put there
C16_FailedParseStartsNothing ==
    ParseFailed =>
        /\ process.pc # "benchmark"
        /\ process.i = Len(process.argv)
        /\ filteredImageSets \subseteq {"set1"}
        /\ \A e \in filteredDetectors : e.filter = {"LPSIFT"}

(***************************************************************************)
(* The report: CSVExporter and printSummaryTable.  A text is a sequence of *)
(* pieces: the double-quote character, or a run of other characters.       *)
(* Durations and inlier counts are kept as the names of what was measured. *)
(***************************************************************************)
\* the column names writeHeader writes, in order
HeaderColumns ==
    <<"Dataset", "Size Category", "Algorithm", "Reference Resolution",
      "Registered Resolution", "Keypoints (Reference)", "Keypoints (Registered)",
      "Matches", "Inliers", "Window Size (L)", "Detection Time Ref (s)",
      "Detection Time Reg (s)", "Descriptor Time Ref (s)", "Descriptor Time Reg (s)",
      "Matching Time (s)", "Homography Time (s)", "Warping Time (s)",
      "Total Stitching Time (s)", "Success", "Homography Matrix",
      "Homography Difference from SIFT", "Failure Reason">>

imageSizeCategoryToString(cat) ==
    CASE cat = "SMALL" -> "Small"
      [] cat = "MEDIUM" -> "Medium"
      [] cat = "LARGE" -> "Large"
      [] OTHER -> "Unknown"

getResolution(width, height) == ToString(width) \o "x" \o ToString(height)

\* StitchingMetrics::formatTime of a field the run did or did not assign
formatTime(m, field) == IF field \in m.times THEN field ELSE "0.00"

\* numInliers is assigned with homographyTime
InliersText(m) == IF "homographyTime" \in m.times THEN "numInliers" ELSE "0"

MatEmpty(H) == H.kind # "H"

\* cv::operator-(const Mat&, const Mat&): an empty operand raises cv::Exception
MatSubtract(a, b) ==
    IF MatEmpty(a) \/ MatEmpty(b)
    THEN [throw |-> TRUE, val |-> NoH]
    ELSE [throw |-> FALSE,
          val |-> [kind |-> "H", dataset |-> a.dataset \o "-" \o b.dataset,
                   algorithm |-> a.algorithm \o "-" \o b.algorithm]]

\* StitchingMetrics::printHomography: "[]" for a matrix without rows
printHomography(H) ==
    IF MatEmpty(H) THEN "[]"
    ELSE "[[" \o H.dataset \o ":" \o H.algorithm \o "]]"

\* escapeCsv: every double quote is doubled
escapeCsv(text) ==
    [i \in 1 .. Len(text) |-> IF text[i] = "\"" THEN "\"\"" ELSE text[i]]

\* makeCsvRow: each item escaped and put between double quotes
makeCsvRow(items) ==
    [i \in 1 .. Len(items) |-> <<"\"">> \o escapeCsv(items[i]) \o <<"\"">>]

\* CSVExporter::writeMetrics: the row, or the exception of the subtraction
writeMetrics(m) ==
    LET difference == MatSubtract(m.homography, m.baselineH)
    IN  IF difference.throw THEN [throw |-> TRUE, row |-> <<>>]
        ELSE [throw |-> FALSE,
              row |-> makeCsvRow(
                <<<<m.datasetName>>,
                  <<imageSizeCategoryToString(m.sizeCategory)>>,
                  <<m.algorithmName>>,
                  <<getResolution(m.referenceWidth, m.referenceHeight)>>,
                  <<getResolution(m.registeredWidth, m.registeredHeight)>>,
                  <<ToString(m.numKeypointsReference)>>,
                  <<ToString(m.numKeypointsRegistered)>>,
                  <<ToString(m.numMatches)>>,
                  <<InliersText(m)>>,
                  <<m.windowSizes.text>>,
                  <<formatTime(m, "detectionTimeReference")>>,
                  <<formatTime(m, "detectionTimeRegistered")>>,
                  <<formatTime(m, "descriptorTimeReference")>>,
                  <<formatTime(m, "descriptorTimeRegistered")>>,
                  <<formatTime(m, "matchingTime")>>,
                  <<formatTime(m, "homographyTime")>>,
                  <<formatTime(m, "warpingTime")>>,
                  <<formatTime(m, "totalStitchingTime")>>,
                  <<printHomography(m.homography)>>,
                  <<printHomography(difference.val)>>,
                  <<IF m.stitchingSuccess THEN "Yes" ELSE "No">>,
                  <<m.failureReason>>>>)]

\* the records whose row cannot be formed
Raising(metrics) == {k \in 1 .. Len(metrics) : writeMetrics(metrics[k]).throw}

FirstRaising(metrics) ==
    IF Raising(metrics) = {} THEN Len(metrics) + 1
    ELSE CHOOSE k \in Raising(metrics) : \A j \in Raising(metrics) : k <= j

\* CSVExporter::writeAllMetrics: the file it leaves and whether it raised
writeAllMetrics(metrics) ==
    LET n == FirstRaising(metrics)
    IN  [throw |-> n <= Len(metrics),
         header |-> HeaderColumns,
         rows |-> [k \in 1 .. (n - 1) |-> writeMetrics(metrics[k]).row]]

\* one line of printSummaryTable
SummaryRow(m) ==
    <<m.datasetName, imageSizeCategoryToString(m.sizeCategory), m.algorithmName,
      getResolution(m.referenceWidth, m.referenceHeight),
      IF m.stitchingSuccess THEN ToString(m.numKeypointsReference) ELSE "x",
      IF m.stitchingSuccess THEN ToString(m.numKeypointsRegistered) ELSE "x",
      IF m.stitchingSuccess THEN ToString(m.numMatches) ELSE "x",
      IF m.stitchingSuccess THEN InliersText(m) ELSE "x",
      m.windowSizes.text,
      IF m.stitchingSuccess THEN formatTime(m, "totalStitchingTime") ELSE "Failed",
      printHomography(MatSubtract(m.homography, m.baselineH).val)>>

\* BenchmarkRunner::printSummaryTable: the complete lines it prints
printSummaryTable(theResults) ==
    LET n == FirstRaising(theResults)
    IN  [throw |-> n <= Len(theResults),
         table |-> [k \in 1 .. (n - 1) |-> SummaryRow(theResults[k])]]

(***************************************************************************)
(* SpecReport: runBenchmark after runOnDirectory has returned.             *)
(***************************************************************************)
InitReport == InitSweep

Collected == bmPc = "returned" /\ report.pc = "none"

\* results.empty(): return 1
NoResults ==
    /\ Collected
    /\ allResults = <<>>
    /\ report' = [pc |-> "empty", header |-> <<>>, rows |-> <<>>, table |-> <<>>]
    /\ UNCHANGED <<lpVars, runVars, sweepVars, bmPc, process, limit, blend>>

\* exporter.writeAllMetrics(results); an exception leaves runBenchmark
WriteAllMetrics ==
    /\ Collected
    /\ allResults # <<>>
    /\ LET w == writeAllMetrics(allResults)
       IN  report' = [pc |-> IF w.throw THEN "raised" ELSE "written",
                      header |-> w.header, rows |-> w.rows, table |-> <<>>]
    /\ UNCHANGED <<lpVars, runVars, sweepVars, bmPc, process, limit, blend>>

\* BenchmarkRunner::printSummaryTable(results)
PrintSummaryTable ==
    /\ bmPc = "returned"
    /\ report.pc = "written"
    /\ LET t == printSummaryTable(allResults)
       IN  report' = [report EXCEPT !.pc = IF t.throw THEN "raised" ELSE "printed",
                                    !.table = t.table]
    /\ UNCHANGED <<lpVars, runVars, sweepVars, bmPc, process, limit, blend>>

NextReport ==
    \/ DirectoryMissing
    \/ SkipUnselected
    \/ SkipUnloadable
    \/ ProcessSet
    \/ ReturnAllResults
    \/ NoResults
    \/ WriteAllMetrics
    \/ PrintSummaryTable

SpecReport == InitReport /\ [][NextReport]_vars

Reported == report.pc \in {"written", "raised", "printed"}

\* the metric a column of the header names, as text
ValueNamed(column, m) ==
    CASE column = "Dataset" -> m.datasetName
      [] column = "Size Category" -> imageSizeCategoryToString(m.sizeCategory)
      [] column = "Algorithm" -> m.algorithmName
      [] column = "Reference Resolution" ->
            getResolution(m.referenceWidth, m.referenceHeight)
      [] column = "Registered Resolution" ->
            getResolution(m.registeredWidth, m.registeredHeight)
      [] column = "Keypoints (Reference)" -> ToString(m.numKeypointsReference)
      [] column = "Keypoints (Registered)" -> ToString(m.numKeypointsRegistered)
      [] column = "Matches" -> ToString(m.numMatches)
      [] column = "Inliers" -> InliersText(m)
      [] column = "Window Size (L)" -> m.windowSizes.text
      [] column = "Detection Time Ref (s)" -> formatTime(m, "detectionTimeReference")
      [] column = "Detection Time Reg (s)" -> formatTime(m, "detectionTimeRegistered")
      [] column = "Descriptor Time Ref (s)" -> formatTime(m, "descriptorTimeReference")
      [] column = "Descriptor Time Reg (s)" -> formatTime(m, "descriptorTimeRegistered")
      [] column = "Matching Time (s)" -> formatTime(m, "matchingTime")
      [] column = "Homography Time (s)" -> formatTime(m, "homographyTime")
      [] column = "Warping Time (s)" -> formatTime(m, "warpingTime")
      [] column = "Total Stitching Time (s)" -> formatTime(m, "totalStitchingTime")
      [] column = "Success" -> IF m.stitchingSuccess THEN "Yes" ELSE "No"
      [] column = "Homography Matrix" -> printHomography(m.homography)
      [] column = "Homography Difference from SIFT" ->
            printHomography(MatSubtract(m.homography, m.baselineH).val)
      [] column = "Failure Reason" -> m.failureReason

\* C17: every data row has as many fields as the header has columns, field i
\* of the row holds, quoted, the value named by column i of the header (the
\* field under 'Success' is Yes/No, the field under 'Homography Matrix' is
\* the matrix).
C17_RowAlignedWithHeader ==
    Reported =>
        \A k \in 1 .. Len(report.rows) :
            /\ Len(report.rows[k]) = Len(report.header)
            /\ \A i \in 1 .. Len(report.header) :
                  report.rows[k][i] =
                      <<"\"", ValueNamed(report.header[i], allResults[k]), "\"">>

\* what does hold: a row has the header's number of fields, each between
\* double quotes with no single double quote inside, and only the last four
\* fields are out of place
C17_SameFieldCountAllQuoted ==
    Reported =>
        \A k \in 1 .. Len(report.rows) :
            /\ Len(report.rows[k]) = Len(report.header)
            /\ \A i \in 1 .. Len(report.header) :
                  LET field == report.rows[k][i]
                  IN  /\ Len(field) >= 2
                      /\ field[1] = "\""
                      /\ field[Len(field)] = "\""
                      /\ \A j \in 2 .. (Len(field) - 1) : field[j] # "\""
                      /\ i <= 18 =>
                            field = <<"\"", ValueNamed(report.header[i], allResults[k]), "\"">>

\* C18: for every list of records the runner returns, writeAllMetrics and
\* printSummaryTable complete without raising and emit one row per record,
\* in order.
C18_OneRowPerRecord ==
    Reported =>
        /\ report.pc # "raised"
        /\ Len(report.rows) = Len(allResults)
        /\ \A k \in 1 .. Len(allResults) : report.rows[k] = writeMetrics(allResults[k]).row
        /\ report.pc = "printed" =>
              /\ Len(report.table) = Len(allResults)
              /\ \A k \in 1 .. Len(allResults) :
                    report.table[k][1] = allResults[k].datasetName
                        /\ report.table[k][3] = allResults[k].algorithmName

\* what does hold: the rows are those of the records before the first one
\* whose homography or baseline is empty, and the table is printed only when
\* there is no such record
C18_RowsUntilEmptyMatrix ==
    Reported =>
        LET bad == {k \in 1 .. Len(allResults) :
                       MatEmpty(allResults[k].homography)
                           \/ MatEmpty(allResults[k].baselineH)}
        IN  /\ report.pc = "raised" <=> bad # {}
            /\ \A k \in 1 .. Len(allResults) :
                  k <= Len(report.rows) <=> \A j \in bad : k < j
            /\ report.pc = "printed" => Len(report.table) = Len(allResults)

(***************************************************************************)
(* SpecDetectAnyOrder: both detectors on window-size lists in any order,   *)
(* repeated entries included.                                              *)
(***************************************************************************)
InitDetectAnyOrder ==
    /\ MainIdle
    /\ image \in Images
    /\ windowSizes_ \in WindowLists(MaxWindows)
    /\ linearNoiseAlpha_ = DEFAULT_LINEAR_NOISE_ALPHA
    /\ keypoints = <<>>
    /\ descriptors = ReleasedMat
    /\ grayWithRamp = ToFloat(EmptyImage)
    /\ tiles = <<>>
    /\ lpPc = "idle"
    /\ BenchmarkIdle

NextDetectAnyOrder == DetectLPSIFT \/ DetectLPORB

SpecDetectAnyOrder == InitDetectAnyOrder /\ [][NextDetectAnyOrder]_vars

RECURSIVE InsertSorted(_, _)
InsertSorted(ws, L) ==
    IF ws = <<>> THEN <<L>>
    ELSE IF L <= Head(ws) THEN <<L>> \o ws
    ELSE <<Head(ws)>> \o InsertSorted(Tail(ws), L)

RECURSIVE SortedList(_)
\* the permutation of the list that is in non-decreasing order
SortedList(ws) ==
    IF ws = <<>> THEN <<>> ELSE InsertSorted(SortedList(Tail(ws)), Head(ws))

\* a keypoint without its scale index
OrderFreeCore(kp) == [x |-> kp.x, y |-> kp.y, windowSize |-> kp.size, response |-> kp.response]

\* the multiset of the cores of a keypoint list: core -> number of occurrences
CoreBag(kps) ==
    [c \in {OrderFreeCore(kps[i]) : i \in DOMAIN kps} |->
        Cardinality({i \in DOMAIN kps : OrderFreeCore(kps[i]) = c})]

\* what the detector that ran returns for the sorted permutation of the list
DetectSorted ==
    IF lpPc = "detected_lpsift"
    THEN LPSIFT_detect(image, SortedList(windowSizes_), linearNoiseAlpha_).keypoints
    ELSE LPORB_detect(image, SortedList(windowSizes_), linearNoiseAlpha_).keypoints

\* C21: every permutation of the window-size list gives the same multiset of
\* keypoints on (x, y, windowSize, response): the keypoints of any list are,
\* as a multiset, those of its sorted permutation.
C21_WindowOrderIndependent ==
    lpPc \in {"detected_lpsift", "detected_lporb"} =>
        CoreBag(keypoints) = CoreBag(DetectSorted)

\* a list that is not in sorted order produced keypoints whose scale indices
\* differ from those of the sorted list
C21_Witness ==
    /\ lpPc \in {"detected_lpsift", "detected_lporb"}
    /\ windowSizes_ # SortedList(windowSizes_)
    /\ keypoints # <<>>
    /\ keypoints # DetectSorted
    /\ \E i \in DOMAIN keypoints : keypoints[i].octave >= 1

\* the keypoints of the result that a tile of the searched list produced
KeypointsOfTile(t) ==
    {k \in DOMAIN keypoints :
        /\ keypoints[k].octave = t.idx
        /\ keypoints[k].y * image.cols + keypoints[k].x \in TilePixels(t, image.cols)}

ZeroResponse == [v |-> 0, off |-> 0]

\* C22: each tile emits at most two keypoints, one at the position of its
\* maximum and one at the position of its minimum on the ramped image only
\* if that position is distinct from the maximum's; both carry the response
\* max - min >= 0 and windowSize L, and lie inside the tile.
C22_MinOnlyIfDistinct ==
    lpPc = "detected_lpsift" =>
        \A n \in DOMAIN tiles :
            LET t == tiles[n]
                K == KeypointsOfTile(t)
            IN  /\ Cardinality(K) <= 2
                /\ \A k \in K :
                      /\ keypoints[k].size = t.L
                      /\ ~FLess(keypoints[k].response, ZeroResponse)
                      /\ keypoints[k].y * image.cols + keypoints[k].x
                            \in {maxLocOf(grayWithRamp, t), minLocOf(grayWithRamp, t)}
                /\ \A j, k \in K :
                      (keypoints[j].x = keypoints[k].x /\ keypoints[j].y = keypoints[k].y)
                          => j = k

\* what does hold: at most two keypoints per tile, each at the tile's maximum
\* or minimum, inside the tile, with windowSize L and the response max - min
C22_TwoPerTileInsideTile ==
    lpPc = "detected_lpsift" =>
        /\ \A n \in DOMAIN tiles :
              LET t == tiles[n]
                  K == KeypointsOfTile(t)
                  maxLoc == maxLocOf(grayWithRamp, t)
                  minLoc == minLocOf(grayWithRamp, t)
              IN  /\ Cardinality(K) <= 2
                  /\ \A k \in K :
                        /\ keypoints[k].size = t.L
                        /\ keypoints[k].class_id = t.L
                        /\ keypoints[k].response =
                              F32Sub(grayWithRamp.pix[maxLoc], grayWithRamp.pix[minLoc])
                        /\ ~FLess(keypoints[k].response, ZeroResponse)
                        /\ keypoints[k].y * image.cols + keypoints[k].x \in {maxLoc, minLoc}
        /\ \A k \in DOMAIN keypoints :
              \E n \in DOMAIN tiles : k \in KeypointsOfTile(tiles[n])

\* the pixels of the un-ramped source within one step of (x, y), itself
\* included, that hold the value of (x, y)
SameValueNeighbours(x, y) ==
    {<<nx, ny>> \in (0 .. image.cols - 1) \X (0 .. image.rows - 1) :
        /\ nx >= x - 1 /\ nx <= x + 1 /\ ny >= y - 1 /\ ny <= y + 1
        /\ image.pix[ny * image.cols + nx] = image.pix[y * image.cols + x]}

EmittedAt(t, p) ==
    \E k \in KeypointsOfTile(t) : keypoints[k].y * image.cols + keypoints[k].x = p

\* C23: a tile extremum at (x, y) is emitted by LPSIFT::detect if and only if
\* exactly one pixel of the clipped 3x3 neighbourhood of (x, y) in the
\* un-ramped source has the value of (x, y); the ramped copy only locates
\* the extremum.
C23_UniquenessOnSource ==
    lpPc = "detected_lpsift" =>
        \A n \in DOMAIN tiles :
            \A p \in {maxLocOf(grayWithRamp, tiles[n]), minLocOf(grayWithRamp, tiles[n])} :
                EmittedAt(tiles[n], p) <=>
                    Cardinality(SameValueNeighbours(p % image.cols, p \div image.cols)) = 1

\* with the ramp on, one tile's maximum is unique in the ramped copy but not
\* in the source and is not emitted, while another extremum is emitted
C23_Witness ==
    /\ lpPc = "detected_lpsift"
    /\ linearNoiseAlpha_ > 0
    /\ keypoints # <<>>
    /\ \E n \in DOMAIN tiles :
          LET p == maxLocOf(grayWithRamp, tiles[n])
          IN  /\ isUniqueInNeighborhood(grayWithRamp, p % image.cols, p \div image.cols)
              /\ Cardinality(SameValueNeighbours(p % image.cols, p \div image.cols)) >= 2
              /\ ~EmittedAt(tiles[n], p)

(***************************************************************************)
(* SpecDescribe: compute on images larger than one tile, for keypoints at  *)
(* any position with any of a few window sizes, alone or after a keypoint  *)
(* of window size 1 at the same position.                                  *)
(***************************************************************************)
DescribeSizes == {<<3, 3>>, <<4, 5>>}

DescribeWindows == {1, 3, 5}

DescribeImages ==
    UNION {{SpotImage(sz[1], sz[2], b, s, p) :
              b \in PixelValues, s \in PixelValues, p \in 0 .. sz[1] * sz[2] - 1} :
           sz \in DescribeSizes}

KeypointAt(x, y, L) ==
    [x |-> x, y |-> y, size |-> L, response |-> ZeroResponse,
     angle |-> -1, octave |-> 0, class_id |-> L]

InitDescribe ==
    /\ MainIdle
    /\ image \in DescribeImages
    /\ windowSizes_ = <<>>
    /\ linearNoiseAlpha_ = DEFAULT_LINEAR_NOISE_ALPHA
    /\ \E x \in 0 .. image.cols - 1, y \in 0 .. image.rows - 1, L \in DescribeWindows :
          keypoints \in {<<KeypointAt(x, y, L)>>, <<KeypointAt(x, y, 1), KeypointAt(x, y, L)>>}
    /\ descriptors = ReleasedMat
    /\ grayWithRamp = ToFloat(EmptyImage)
    /\ tiles = <<>>
    /\ lpPc = "idle"
    /\ BenchmarkIdle

\* SIFTWithLPDescriptor::compute
ComputeSIFTLP ==
    /\ lpPc = "idle"
    /\ descriptors' = SIFTLP_compute(image, keypoints)
    /\ lpPc' = "computed_siftlp"
    /\ UNCHANGED <<mainVars, image, windowSizes_, linearNoiseAlpha_, keypoints, grayWithRamp, tiles, runVars, sweepVars, bmPc>>

NextDescribe == Compute \/ ComputeSIFTLP

SpecDescribe == InitDescribe /\ [][NextDescribe]_vars


(***************************************************************************)
(* Claims about the descriptor, settled under SpecDescribe.                *)
(***************************************************************************)
\* the tile of a keypoint, clipped to the image
ClippedTile(img, kp) ==
    LET L == kp.class_id
        x0 == (kp.x \div L) * L
        y0 == (kp.y \div L) * L
    IN  [x |-> x0, y |-> y0, w |-> Min(L, img.cols - x0), h |-> Min(L, img.rows - y0)]

DegenerateTile(img, kp) == ClippedTile(img, kp).w <= 2 \/ ClippedTile(img, kp).h <= 2

AllZero(row) ==
    /\ Len(row.vec) = 64
    /\ \A k \in DOMAIN row.vec : row.vec[k].sgn = 0 /\ row.vec[k].num = 0

\* C24: a keypoint whose clipped tile has width <= 2 or height <= 2 gets the
\* all-zero 64-vector, and every other keypoint of the same compute call gets
\* the descriptor it gets when it is computed alone.
C24_DegenerateTileZero ==
    (lpPc = "computed" /\ descriptors.rows > 0) =>
        \A i \in DOMAIN keypoints :
            /\ DegenerateTile(image, keypoints[i]) => AllZero(descriptors.data[i])
            /\ descriptors.data[i] = LPSIFT_compute(image, <<keypoints[i]>>).data[1]

\* one compute call described a keypoint of a degenerate tile and a keypoint
\* whose descriptor is not zero
C24_Witness ==
    /\ lpPc = "computed"
    /\ descriptors.rows >= 2
    /\ \E i, j \in DOMAIN keypoints :
          /\ DegenerateTile(image, keypoints[i])
          /\ AllZero(descriptors.data[i])
          /\ ~DegenerateTile(image, keypoints[j])
          /\ ~AllZero(descriptors.data[j])

SignedBinsBefore(raw) ==
    \A c \in 0 .. 15 :
        /\ raw[4 * c + 1] >= 0 /\ raw[4 * c + 2] >= 0
        /\ raw[4 * c + 3] <= 0 /\ raw[4 * c + 4] <= 0

SignedBinsAfter(vec) ==
    \A c \in 0 .. 15 :
        /\ vec[4 * c + 1].sgn >= 0 /\ vec[4 * c + 2].sgn >= 0
        /\ vec[4 * c + 3].sgn <= 0 /\ vec[4 * c + 4].sgn <= 0

\* entries 4c .. 4c+3 of the descriptor have the signs of the histogram hist
CellHolds(vec, c, hist) == \A k \in 1 .. 4 : vec[4 * c + k].sgn = Sign(hist[k])

\* C25: in every descriptor, for each spatial cell c = 4 * ii + jj, entries
\* 4c and 4c+1 are >= 0 and entries 4c+2 and 4c+3 are <= 0, in the histogram
\* before clipping and normalisation and in the descriptor after them; cell
\* c holds the histogram of sub-region (ii, jj).
C25_SignedBins ==
    (lpPc = "computed" /\ descriptors.rows > 0) =>
        \A i \in DOMAIN descriptors.data :
            /\ SignedBinsBefore(descriptors.data[i].raw)
            /\ SignedBinsAfter(descriptors.data[i].vec)
            /\ ~DegenerateTile(image, keypoints[i]) =>
                  \A c \in 0 .. 15 :
                      /\ CellHolds(descriptors.data[i].vec, c,
                                   SubSeq(descriptors.data[i].raw, 4 * c + 1, 4 * c + 4))
                      /\ SubSeq(descriptors.data[i].raw, 4 * c + 1, 4 * c + 4) =
                            BinHistogram(image, DescriptorGeometry(image, keypoints[i]),
                                         c \div 4, c % 4)

\* a computed descriptor has a strictly negative entry in a negative bin
C25_Witness ==
    /\ lpPc = "computed"
    /\ \E i \in DOMAIN descriptors.data : \E c \in 0 .. 15 :
          /\ descriptors.data[i].vec[4 * c + 3].sgn = -1
          /\ descriptors.data[i].vec[4 * c + 3].num > 0

\* the pixels of the keypoint's clipped tile that keep a 1-pixel margin from
\* the tile's edges
InsideTileMargin(img, kp, globalY, globalX) ==
    LET t == ClippedTile(img, kp)
    IN  /\ globalX > t.x /\ globalX < t.x + t.w - 1
        /\ globalY > t.y /\ globalY < t.y + t.h - 1

\* C26: only pixels inside the keypoint's own tile, with a 1-pixel margin
\* from the tile's edges, contribute to its descriptor; no gradient reads a
\* pixel of a neighbouring tile.
C26_GradientsTileLocal ==
    (lpPc = "computed" /\ descriptors.rows > 0) =>
        \A i \in DOMAIN keypoints :
            \A s \in LPSIFT_Samples(image, keypoints[i]) :
                Contributes(image, s.globalY, s.globalX) =>
                    InsideTileMargin(image, keypoints[i], s.globalY, s.globalX)

\* the samples each kind of compute visits for a keypoint
SamplesVisited(kp) ==
    IF lpPc = "computed" THEN LPSIFT_Samples(image, kp) ELSE SIFTLP_Samples(kp)

InsideImage(p) ==
    /\ p[1] >= 0 /\ p[1] <= image.rows - 1
    /\ p[2] >= 0 /\ p[2] <= image.cols - 1

\* C27: every pixel that LPSIFT::computeDescriptor and
\* SIFTWithLPDescriptor::computeDescriptor read, the four neighbours of each
\* sampled position, lies within [0, cols-1] x [0, rows-1].
C27_ReadsInsideImage ==
    lpPc \in {"computed", "computed_siftlp"} =>
        \A i \in DOMAIN keypoints :
            \A p \in PixelsRead(image, SamplesVisited(keypoints[i])) : InsideImage(p)

\* a descriptor was computed whose samples fall partly outside the image and
\* whose gradients read the first and the last column of the image
C27_Witness ==
    /\ lpPc \in {"computed", "computed_siftlp"}
    /\ \E i \in DOMAIN keypoints :
          /\ \E s \in SamplesVisited(keypoints[i]) : s.globalX < 0 \/ s.globalY >= image.rows
          /\ \E p \in PixelsRead(image, SamplesVisited(keypoints[i])) : p[2] = 0
          /\ \E p \in PixelsRead(image, SamplesVisited(keypoints[i])) : p[2] = image.cols - 1

(***************************************************************************)
(* limitKeypoints.                                                         *)
(***************************************************************************)
MaxKpts == 4

MaxResponse == 2

\* the keypoints handed to limitKeypoints: two positions, so that a list can
\* hold the same keypoint twice, and responses that tie
LimitKeyPoints == {[pt |-> p, response |-> r] : p \in 1 .. 2, r \in 0 .. MaxResponse}

KeypointLists == UNION {[1 .. n -> LimitKeyPoints] : n \in 0 .. MaxKpts}

Orderings(n) == {p \in [1 .. n -> 1 .. n] : \A i, j \in 1 .. n : p[i] = p[j] => i = j}

StrongerFirst_Weaker(a, b) == a.response < b.response

\* the comparator of the std::sort call
StrongerFirst(a, b) == a.response > b.response

\* std::sort: some arrangement of the elements in which no element comes
\* before one the comparator ranks ahead of it; the order of elements the
\* comparator does not tell apart is the library's choice
SortedArrangements(kpts) ==
    LET n == Len(kpts)
        arranged(p) == [i \in 1 .. n |-> kpts[p[i]]]
    IN  {arranged(p) : p \in {q \in Orderings(n) :
            \A i, j \in 1 .. n : i < j => ~StrongerFirst(kpts[q[j]], kpts[q[i]])}}

\* the possible contents of kpts after the call
limitKeypoints(kpts, maxCount) ==
    IF Len(kpts) > maxCount
    THEN {SubSeq(sorted, 1, maxCount) : sorted \in SortedArrangements(kpts)}
    ELSE {kpts}

InitLimit ==
    /\ LocalPeakIdle
    /\ BenchmarkIdle
    /\ process = NoProcess
    /\ report = NoReport
    /\ blend = NoBlend
    /\ \E k \in KeypointLists, c \in 0 .. MaxKpts :
          limit = [pc |-> "called", given |-> k, kpts |-> k, maxCount |-> c]

LimitKeypoints ==
    /\ limit.pc = "called"
    /\ \E after \in limitKeypoints(limit.kpts, limit.maxCount) :
          limit' = [limit EXCEPT !.pc = "returned", !.kpts = after]
    /\ UNCHANGED <<lpVars, runVars, sweepVars, bmPc, process, report, blend>>

NextLimit == LimitKeypoints

SpecLimit == InitLimit /\ [][NextLimit]_vars

(***************************************************************************)
(* Claim settled under SpecLimit.                                          *)
(***************************************************************************)
BagOfSeq(seq) ==
    LET elems == {seq[i] : i \in DOMAIN seq}
    IN  [e \in elems |-> Cardinality({i \in DOMAIN seq : seq[i] = e})]

\* C28: after limitKeypoints(kpts, max) on a list of n keypoints the list has
\* min(n, max) elements; when n > max the kept keypoints are a sub-multiset of
\* the input in descending order of response and no dropped keypoint has a
\* larger response than a kept one; when n <= max the list is the input,
\* order included.
C28_KeepsStrongest ==
    limit.pc = "returned" =>
        LET n == Len(limit.given)
            kept == BagOfSeq(limit.kpts)
            dropped == BagOfSeq(limit.given) (-) kept
        IN  /\ Len(limit.kpts) = Min(n, limit.maxCount)
            /\ n > limit.maxCount =>
                  /\ kept \sqsubseteq BagOfSeq(limit.given)
                  /\ \A i, j \in DOMAIN limit.kpts :
                        i < j => limit.kpts[i].response >= limit.kpts[j].response
                  /\ \A k \in BagToSet(kept), d \in BagToSet(dropped) :
                        k.response >= d.response
            /\ n <= limit.maxCount => limit.kpts = limit.given

\* a list in ascending order, the same keypoint in it twice, was cut to two:
\* the tie between the kept and the dropped copy is broken either way
C28_Witness ==
    /\ limit.pc = "returned"
    /\ Len(limit.given) = 4
    /\ limit.maxCount = 2
    /\ limit.given[1].response < limit.given[4].response
    /\ limit.given[2] = limit.given[3]
    /\ limit.kpts = <<limit.given[4], limit.given[2]>>
    /\ limit.given[1].response < limit.given[2].response

(***************************************************************************)
(* BenchmarkRunner::warpAndBlend.  A float coordinate is held as a whole   *)
(* number of half pixels.                                                  *)
(***************************************************************************)
Px(n) == 2 * n

Abs(v) == IF v < 0 THEN -v ELSE v

\* the spacing of the float values around a: 24 significant bits
RECURSIVE Ulp(_)
Ulp(a) == IF a < Pow2(24) THEN 1 ELSE 2 * Ulp(a \div 2)

\* the float nearest to v, ties to the even significand
ToFloat32(v) ==
    LET a == Abs(v)
        u == Ulp(a)
        q == a \div u
        r == a % u
        n == IF 2 * r > u \/ (2 * r = u /\ q % 2 = 1) THEN q + 1 ELSE q
    IN  IF v < 0 THEN -(n * u) ELSE n * u

\* static_cast<int> of a float: the fraction is dropped
TruncToInt(v) == IF v < 0 THEN -((-v) \div Px(1)) ELSE v \div Px(1)

\* the four corners of an image, in pixels
Corners(img) == {<<0, 0>>, <<img.cols, 0>>, <<img.cols, img.rows>>, <<0, img.rows>>}

\* cv::perspectiveTransform under H = (sx 0 tx; 0 sy ty; 0 0 1): computed in
\* double, stored as float
perspectiveTransform(points, H) ==
    {<<ToFloat32(H.sx * Px(c[1]) + H.tx), ToFloat32(H.sy * Px(c[2]) + H.ty)>> : c \in points}

SetMin(S) == CHOOSE m \in S : \A e \in S : m <= e

SetMax(S) == CHOOSE m \in S : \A e \in S : m >= e

\* the canvas, the offsets, the region the fixed image is copied to, and
\* whether stitched(roi) accepted the region
warpAndBlend(imgToWarp, baseImg, H) ==
    LET warpedCorners == perspectiveTransform(Corners(imgToWarp), H)
        cornersBase == {<<Px(c[1]), Px(c[2])>> : c \in Corners(baseImg)}
        all == warpedCorners \cup cornersBase
        minX == SetMin({c[1] : c \in all})
        minY == SetMin({c[2] : c \in all})
        maxX == SetMax({c[1] : c \in all})
        maxY == SetMax({c[2] : c \in all})
        offsetX == IF minX < 0 THEN TruncToInt(-minX) ELSE 0
        offsetY == IF minY < 0 THEN TruncToInt(-minY) ELSE 0
        width == TruncToInt(ToFloat32(ToFloat32(maxX - minX) + Px(1)))
        height == TruncToInt(ToFloat32(ToFloat32(maxY - minY) + Px(1)))
        roi == [x |-> offsetX, y |-> offsetY, width |-> baseImg.cols, height |-> baseImg.rows]
        roiInside == /\ 0 <= roi.x /\ roi.x + roi.width <= width
                     /\ 0 <= roi.y /\ roi.y + roi.height <= height
    IN  [warpedCorners |-> warpedCorners, offsetX |-> offsetX, offsetY |-> offsetY,
         width |-> width, height |-> height, roi |-> roi,
         thrown |-> IF roiInside THEN "none" ELSE "cv::Exception"]

WarpImages == {[cols |-> 1, rows |-> 1], [cols |-> 4, rows |-> 3], [cols |-> 5, rows |-> 2]}

\* scalings, flips and translations by whole and half pixels, two of them far
\* enough for the canvas to be wider than 2^24 pixels
Homographies ==
    {[sx |-> sx, tx |-> tx, sy |-> sy, ty |-> ty] :
        sx \in {1, 2, -1},
        tx \in {-Px(Pow2(24) + 4), -5, -1, 0, 1, Px(3), Px(Pow2(24))},
        sy \in {1, -1},
        ty \in {-5, -1, 0, Px(2)}}

InitWarp ==
    /\ LocalPeakIdle
    /\ BenchmarkIdle
    /\ process = NoProcess
    /\ report = NoReport
    /\ limit = NoLimit
    /\ \E w \in WarpImages, b \in WarpImages, H \in Homographies :
          blend = [pc |-> "called", imgToWarp |-> w, baseImg |-> b, H |-> H]

CallWarpAndBlend ==
    /\ blend.pc = "called"
    /\ LET ret == warpAndBlend(blend.imgToWarp, blend.baseImg, blend.H)
       IN  blend' = [pc |-> IF ret.thrown = "none" THEN "returned" ELSE "thrown",
                     imgToWarp |-> blend.imgToWarp, baseImg |-> blend.baseImg,
                     H |-> blend.H, warpedCorners |-> ret.warpedCorners,
                     offsetX |-> ret.offsetX, offsetY |-> ret.offsetY,
                     width |-> ret.width, height |-> ret.height, roi |-> ret.roi]
    /\ UNCHANGED <<lpVars, runVars, sweepVars, bmPc, process, report, limit>>

NextWarp == CallWarpAndBlend

SpecWarp == InitWarp /\ [][NextWarp]_vars

(***************************************************************************)
(* Claim settled under SpecWarp.                                           *)
(***************************************************************************)
Blended == blend.pc \in {"returned", "thrown"}

FixedImageInsideCanvas ==
    /\ blend.offsetX >= 0
    /\ blend.offsetY >= 0
    /\ blend.offsetX + blend.baseImg.cols <= blend.width
    /\ blend.offsetY + blend.baseImg.rows <= blend.height

\* C29: for every homography with finite warped corners the canvas computed
\* by warpAndBlend has offsets offsetX, offsetY >= 0 and contains the fixed
\* image's region, offsetX + baseImg.cols <= width and offsetY + baseImg.rows
\* <= height, so the fixed image is copied at its integer offset and the copy
\* stays inside the canvas.
C29_CanvasContainsFixedImage ==
    Blended =>
        /\ FixedImageInsideCanvas
        /\ blend.pc = "returned"
        /\ blend.roi = [x |-> blend.offsetX, y |-> blend.offsetY,
                        width |-> blend.baseImg.cols, height |-> blend.baseImg.rows]

\* the part the code satisfies: the canvas contains the fixed image whenever
\* every corner lies within 2^22 pixels of the origin, where the float
\* arithmetic of the canvas size is exact
C29_ContainedWhenExact ==
    (Blended /\ \A c \in blend.warpedCorners : Abs(c[1]) < Px(Pow2(22)) /\ Abs(c[2]) < Px(Pow2(22)))
        => (FixedImageInsideCanvas /\ blend.pc = "returned")

\* a warp that moved the image up and to the left by a fraction of a pixel
C29_ShiftedByFraction ==
    /\ blend.pc = "returned"
    /\ blend.H.tx = -5
    /\ blend.H.ty = -1
    /\ blend.offsetX = 2
    /\ blend.offsetY = 0
    /\ blend.width > blend.offsetX + blend.baseImg.cols

(***************************************************************************)
(* Claim settled under SpecSweep.                                          *)
(***************************************************************************)
NoTwoAlike(names) == \A i, j \in DOMAIN names : names[i] = names[j] => i = j

RecordsOf(datasetName) == {j \in DOMAIN allResults : allResults[j].datasetName = datasetName}

Processed(i) == Selected(filteredImageSets, imageSets[i].name) /\ Loadable(imageSets[i])

\* C30: throughout runOnDirectory no two registered detectors have the same
\* name; the list is emptied and rebuilt for each processed image set, so a
\* set contributes as many result records as detectors were configured for
\* it, however many sets were processed before it.
C30_RegistryRebuiltPerSet ==
    /\ NoTwoAlike(detectors_)
    /\ Len(detectors_) <= Len(DetectorNames)
    /\ (bmPc \in {"sweeping", "returned"} /\ dirExists) =>
        /\ \A i \in 1 .. (setIdx - 1) :
              i <= Len(imageSets) =>
                 Cardinality(RecordsOf(imageSets[i].name)) =
                    IF Processed(i)
                    THEN Len(RegisteredDetectors(filteredDetectors, imageSets[i].name))
                    ELSE 0
        /\ (setIdx > 1 /\ setIdx - 1 <= Len(imageSets) /\ Processed(setIdx - 1)) =>
              detectors_ = RegisteredDetectors(filteredDetectors, imageSets[setIdx - 1].name)

\* the sweep returned after three processed sets, the first under a detector
\* filter: four records for it, five for each of the others, and the list
\* holds the five detectors of the last set
C30_Witness ==
    /\ bmPc = "returned"
    /\ Len(imageSets) = MaxSets
    /\ \A i \in DOMAIN imageSets : Processed(i)
    /\ Cardinality(RecordsOf(imageSets[1].name)) = 4
    /\ Cardinality(RecordsOf(imageSets[2].name)) = 5
    /\ Len(allResults) = 4 + 5 * (MaxSets - 1)
    /\ detectors_ = DetectorNames

====
